---- MODULE Spec2Model ----
(***************************************************************************)
(* A model of the path-confinement, atomic-write, archive-extraction and   *)
(* versioning core of src/filesystem.py (class Tools).                     *)
(*                                                                         *)
(* A string is a sequence of tokens.  A token is an atomic piece of text:  *)
(* the separator "/", a dot ".", or a piece of a name.  "/rx" is the three *)
(* tokens "/", "r", "x", so that str.startswith and the splitting on "/"   *)
(* are computed on the text as Python computes them.                       *)
(***************************************************************************)
EXTENDS Integers, Sequences, FiniteSets, TLC

VARIABLES
    fs,         \* the filesystem: absolute path string -> node
    cand,       \* SpecResolve: the candidate handed to _resolve_under_restriction
    res,        \* SpecResolve: what _resolve_under_restriction returned or raised
    versions,   \* self.versions: resolved path -> sequence of snapshot paths
    saved,      \* history: key -> the content each successful save copied
    call,       \* the public operation invoked last, with its arguments
    ret,        \* the result envelope the last public operation returned
    tasks,      \* the coroutines in progress: task name -> its locals and position
    valves      \* self.valves: the settings the paths are displayed under

vars == <<fs, cand, res, versions, saved, call, ret, tasks, valves>>

----------------------------------------------------------------------------
(* Bounds *)

\* Symbolic links followed while one path is canonicalised.
MaxLinkDepth == 2

\* Snapshots recorded for one key.
MaxVersions == 2

\* The number of archives that compress_file is lets exist at a time.
MaxArchives == 1

----------------------------------------------------------------------------
(* Strings *)

SEP == "/"
DOT == "."
DotSeg == <<DOT>>
DotDotSeg == <<DOT, DOT>>

\* str.startswith
StartsWith(s, p) == Len(p) <= Len(s) /\ SubSeq(s, 1, Len(p)) = p

\* os.path.isabs
IsAbs(s) == Len(s) > 0 /\ s[1] = SEP

\* str.split("/")
RECURSIVE SplitAcc(_, _, _)
SplitAcc(s, cur, acc) ==
    IF s = <<>> THEN Append(acc, cur)
    ELSE IF Head(s) = SEP THEN SplitAcc(Tail(s), <<>>, Append(acc, cur))
    ELSE SplitAcc(Tail(s), Append(cur, Head(s)), acc)

Split(s) == SplitAcc(s, <<>>, <<>>)

\* The absolute path string of a list of segments: "/" for none.
RECURSIVE SegsToStr(_)
SegsToStr(segs) ==
    IF segs = <<>> THEN <<SEP>>
    ELSE IF Len(segs) = 1 THEN <<SEP>> \o segs[1]
    ELSE SegsToStr(SubSeq(segs, 1, Len(segs) - 1)) \o <<SEP>> \o segs[Len(segs)]

\* os.path.join(a, b)
PathJoin(a, b) ==
    IF IsAbs(b) THEN b
    ELSE IF a = <<>> \/ a[Len(a)] = SEP THEN a \o b
    ELSE a \o <<SEP>> \o b

----------------------------------------------------------------------------
(* The filesystem *)

NoData == <<>>
DirNode == [kind |-> "dir", content |-> NoData, target |-> NoData]
FileNode(c) == [kind |-> "file", content |-> c, target |-> NoData]
LinkNode(t) == [kind |-> "link", content |-> NoData, target |-> t]

\* The configured root_restriction_directory, its sibling whose name begins
\* with the root's name, and a directory elsewhere.
RootDir == <<SEP, "r">>
SiblingDir == <<SEP, "r", "x">>
OutsideDir == <<SEP, "o">>

P(rel) == RootDir \o <<SEP>> \o rel

C1Data == <<"c1">>
C2Data == <<"c2">>

\* A root holding a file, a directory with a file; no symbolic link.
PlainLayout ==
    (<<SEP>> :> DirNode)
    @@ (RootDir :> DirNode) @@ (SiblingDir :> DirNode) @@ (OutsideDir :> DirNode)
    @@ (P(<<"a">>) :> FileNode(C1Data))
    @@ (P(<<"d">>) :> DirNode)
    @@ (P(<<"d", SEP, "a">>) :> FileNode(C2Data))

\* The same with a link leaving the root, a link to a directory of the
\* root and a link to a file of the root.
LinkLayout ==
    PlainLayout
    @@ (P(<<"l">>) :> LinkNode(OutsideDir))
    @@ (P(<<"k">>) :> LinkNode(P(<<"d">>)))
    @@ (P(<<"s">>) :> LinkNode(P(<<"a">>)))

\* The configured root is a link to a directory elsewhere, which holds the
\* file: the real root lies at another place.
MovedDir == OutsideDir \o <<SEP, "m">>
MovedLayout ==
    (<<SEP>> :> DirNode)
    @@ (RootDir :> LinkNode(MovedDir)) @@ (OutsideDir :> DirNode) @@ (MovedDir :> DirNode)
    @@ (MovedDir \o <<SEP, "a">> :> FileNode(C1Data))

\* The layout with links: in the directory d, beside its file, a link to a
\* file of the root, a link to the directory outside, and a directory with
\* a file of its own.
TreeLayout ==
    LinkLayout
    @@ (P(<<"d", SEP, "t">>) :> LinkNode(P(<<"a">>)))
    @@ (P(<<"d", SEP, "j">>) :> LinkNode(OutsideDir))
    @@ (P(<<"d", SEP, "e">>) :> DirNode)
    @@ (P(<<"d", SEP, "e", SEP, "g">>) :> FileNode(C1Data))
    @@ (OutsideDir \o <<SEP, "h">> :> FileNode(C2Data))

IsLinkAt(f, p) == p \in DOMAIN f /\ f[p].kind = "link"

\* os.path.realpath (Path.resolve, strict=False): the segments are walked
\* from the left; "" and "." are dropped, ".." drops the last segment kept,
\* a symbolic link is replaced by its target, a missing name is kept.
RECURSIVE Walk(_, _, _, _)
Walk(f, cur, segs, fuel) ==
    IF segs = <<>> THEN cur
    ELSE LET s == Head(segs)
             rest == Tail(segs)
             np == Append(cur, s)
         IN  IF s = <<>> \/ s = DotSeg THEN Walk(f, cur, rest, fuel)
             ELSE IF s = DotDotSeg
                  THEN Walk(f, IF cur = <<>> THEN cur
                               ELSE SubSeq(cur, 1, Len(cur) - 1), rest, fuel)
             ELSE IF IsLinkAt(f, SegsToStr(np)) /\ fuel > 0
                  THEN LET t == f[SegsToStr(np)].target
                       IN  Walk(f, IF IsAbs(t) THEN <<>> ELSE cur,
                                Split(t) \o rest, fuel - 1)
             ELSE Walk(f, np, rest, fuel)

RealPath(f, s) == SegsToStr(Walk(f, <<>>, Split(s), MaxLinkDepth))

\* Path(root).resolve()
Base(f) == RealPath(f, RootDir)

\* (base / path).resolve(): an absolute path replaces the base.
ResolveJoined(f, path) ==
    RealPath(f, IF IsAbs(path) THEN path ELSE Base(f) \o <<SEP>> \o path)

\* Tools._resolve_under_restriction: the canonical path, or the ValueError
\* "Path escapes restriction root: {path}".
Resolved(p) == [ok |-> TRUE, path |-> p, error |-> <<>>]

\* A resolver that returns a path outside the root where it should raise.
EscapePassed(path) == Resolved(OutsideDir \o <<SEP, "f">>)

EscapeError(path) ==
    [ok |-> FALSE, path |-> <<>>, error |-> <<"Path escapes restriction root: ">> \o path]

\* A resolver whose error carries the canonical path.
ResolveShowsPath(f, path) ==
    LET p == ResolveJoined(f, path)
    IN  IF ~StartsWith(p, Base(f)) THEN EscapeError(p) ELSE Resolved(p)

ResolveUnderRestriction(f, path) ==
    LET p == ResolveJoined(f, path)
    IN  IF ~StartsWith(p, Base(f)) THEN EscapeError(path) ELSE Resolved(p)

\* p is the directory d or lies beneath it.
IsUnder(p, d) == p = d \/ StartsWith(p, d \o <<SEP>>)

----------------------------------------------------------------------------
(* Path text helpers *)

\* The index of the last separator of s, 0 when it has none.
RECURSIVE LastIndexOf(_, _, _)
LastIndexOf(s, tok, i) ==
    IF i = 0 THEN 0 ELSE IF s[i] = tok THEN i ELSE LastIndexOf(s, tok, i - 1)

LastSep(s) == LastIndexOf(s, SEP, Len(s))

\* os.path.dirname, os.path.basename
DirName(s) ==
    LET i == LastSep(s)
    IN  IF i = 0 THEN <<>> ELSE IF i = 1 THEN <<SEP>> ELSE SubSeq(s, 1, i - 1)

BaseName(s) == SubSeq(s, LastSep(s) + 1, Len(s))

\* os.path.splitext: the extension starts at the last dot of the last
\* component, unless only dots precede it in that component.
SplitExt(s) ==
    LET i == LastSep(s)
        j == LastIndexOf(s, DOT, Len(s))
        named == j > i /\ \E k \in (i + 1)..(j - 1) : s[k] # DOT
    IN  IF named THEN <<SubSeq(s, 1, j - 1), SubSeq(s, j, Len(s))>>
        ELSE <<s, <<>>>>

\* The non-empty segments of a canonical path.
Segs(s) == SelectSeq(Split(s), LAMBDA x : x # <<>>)

\* pathlib's parts of an absolute path: "" and "." are dropped, ".." is kept.
PathParts(s) == SelectSeq(Split(s), LAMBDA x : x # <<>> /\ x # DotSeg)

IsPrefixSeq(a, b) == Len(a) <= Len(b) /\ SubSeq(b, 1, Len(a)) = a

\* Every proper ancestor directory of the canonical path p, nearest last.
Ancestors(p) ==
    LET g == Segs(p)
    IN  { SegsToStr(SubSeq(g, 1, n)) : n \in 0..(Len(g) - 1) }

RECURSIVE JoinSegs(_)
JoinSegs(segs) ==
    IF segs = <<>> THEN <<>>
    ELSE IF Len(segs) = 1 THEN segs[1]
    ELSE segs[1] \o <<SEP>> \o JoinSegs(Tail(segs))

----------------------------------------------------------------------------
(* Configuration (Tools.Valves) *)

\* The settings as the tool is constructed: paths are returned relative to
\* the root, no display root is set, debug is off.
DefaultValves ==
    [return_relative_paths |-> TRUE, spoof_directory_root |-> <<>>, debug |-> FALSE]

\* str(Path(a) / b) for an absolute a and a relative b: "" and "." are
\* dropped from the parts.
PathDiv(a, b) == SegsToStr(PathParts(a \o <<SEP>> \o b))

\* A conversion that returns the path as it is given.
GetAbsolutePath(f, abs) == abs

\* Tools._get_relative_path: Path.relative_to compares whole segments and
\* raises ValueError, caught here, when the path is not under the base.
GetRelativePath(f, abs) ==
    IF ~valves.return_relative_paths THEN abs
    ELSE LET displayRoot == IF valves.spoof_directory_root # <<>>
                            THEN valves.spoof_directory_root
                            ELSE RootDir
             base == Base(f)
             spoofBase == RealPath(f, displayRoot)
             g == PathParts(abs)
             b == PathParts(base)
             rel == IF Len(g) = Len(b) THEN <<DOT>>
                    ELSE JoinSegs(SubSeq(g, Len(b) + 1, Len(g)))
         IN  IF ~IsPrefixSeq(b, g) THEN abs
             ELSE IF spoofBase = base THEN rel
             ELSE PathDiv(displayRoot, rel)

----------------------------------------------------------------------------
(* Filesystem calls *)

Has(f, p) == p \in DOMAIN f

\* os.path.exists, isfile, isdir follow symbolic links; islink does not
\* follow the last one.
Exists(f, p) == LET q == RealPath(f, p) IN Has(f, q) /\ f[q].kind # "link"
IsFile(f, p) == LET q == RealPath(f, p) IN Has(f, q) /\ f[q].kind = "file"
IsDir(f, p) == LET q == RealPath(f, p) IN Has(f, q) /\ f[q].kind = "dir"
LPath(f, p) == PathJoin(RealPath(f, DirName(p)), BaseName(p))
IsLink(f, p) == IsLinkAt(f, LPath(f, p))

\* f with the node n at p, and f without p.
Put(f, p, n) == (p :> n) @@ f
Drop(f, p) == [q \in (DOMAIN f) \ {p} |-> f[q]]

IOk(f) == [ok |-> TRUE, fs |-> f, error |-> <<>>]
IErr(f, e) == [ok |-> FALSE, fs |-> f, error |-> e]

\* os.makedirs(d, exist_ok=True): the missing ancestors and d are created;
\* a name on the way that is a file is an OSError and nothing is created.
MakeDirs(f, d) ==
    LET q == RealPath(f, d)
        chain == Ancestors(q) \cup {q}
    IN  IF Has(f, q) /\ f[q].kind # "dir" THEN IErr(f, <<"FileExistsError">>)
        ELSE IF \E a \in chain : Has(f, a) /\ f[a].kind # "dir"
        THEN IErr(f, <<"NotADirectoryError">>)
        ELSE IOk([x \in (DOMAIN f) \cup chain |-> IF Has(f, x) THEN f[x] ELSE DirNode])

\* Tools._ensure_parent_dir
EnsureParentDir(f, p) ==
    IF DirName(p) # <<>> THEN MakeDirs(f, DirName(p)) ELSE IOk(f)

\* open(p, "w") and a write of c: the file the name leads to is created or
\* overwritten in place.
WriteThrough(f, p, c) ==
    LET q == RealPath(f, p)
    IN  IF Has(f, q) /\ f[q].kind = "dir" THEN IErr(f, <<"IsADirectoryError">>)
        ELSE IF ~IsDir(f, DirName(q)) THEN IErr(f, <<"FileNotFoundError">>)
        ELSE IOk(Put(f, q, FileNode(c)))

\* A copy that leaves the destination empty.
Copy2Empty(f, src, dst) == WriteThrough(f, dst, NoData)

\* shutil.copy2(src, dst): into dst when dst is a directory; the content is
\* written over the destination.
Copy2(f, src, dst) ==
    LET s == RealPath(f, src)
        d == IF IsDir(f, dst) THEN PathJoin(dst, BaseName(src)) ELSE dst
    IN  IF ~Exists(f, s) THEN IErr(f, <<"FileNotFoundError">>)
        ELSE IF ~IsFile(f, s) THEN IErr(f, <<"IsADirectoryError">>)
        ELSE IF RealPath(f, d) = s THEN IErr(f, <<"SameFileError">>)
        ELSE WriteThrough(f, d, f[s].content)

\* os.remove
Remove(f, p) ==
    LET q == LPath(f, p)
    IN  IF ~Has(f, q) THEN IErr(f, <<"FileNotFoundError">>)
        ELSE IF f[q].kind = "dir" THEN IErr(f, <<"IsADirectoryError">>)
        ELSE IOk(Drop(f, q))

\* The name tempfile.mkstemp gives the temporary file of a write to p.
TempTok == "tmp"
TempPath(p) == PathJoin(DirName(p), <<TempTok>>)

\* os.replace(src, dst)
Replace(f, src, dst) ==
    IF ~Has(f, src) THEN IErr(f, <<"FileNotFoundError">>)
    ELSE IF Has(f, dst) /\ f[dst].kind = "dir" THEN IErr(f, <<"IsADirectoryError">>)
    ELSE IOk(Put(Drop(f, src), dst, f[src]))

\* Tools._atomic_write, run to its end: the parent is ensured, the content
\* goes to a temporary file beside the target, the temporary file replaces
\* the target; when the replace raises, the temporary file is unlinked.
AtomicWrite(f, p, c) ==
    LET e == EnsureParentDir(f, p)
        t == TempPath(p)
        w == Put(e.fs, t, FileNode(c))
        r == Replace(w, t, p)
    IN  IF ~e.ok THEN e
        ELSE IF ~r.ok THEN IErr(Drop(w, t), r.error)
        ELSE r

----------------------------------------------------------------------------
(* The result envelope (Tools._result) *)

NoText == <<>>
Result(ok, action, subject) ==
    [ok |-> ok, action |-> action, subject_type |-> subject,
     keys |-> {"ok", "action", "subject_type"},
     error |-> NoText, path |-> NoText, version |-> 0, version_path |-> NoText,
     original_path |-> NoText, message |-> NoText, renamed |-> <<>>, failed |-> <<>>,
     available |-> 0, requested |-> 0, output |-> NoText, extracted_files |-> <<>>,
     count |-> 0, format |-> "none", src |-> NoText, dst |-> NoText,
     files |-> 0, backup |-> NoText]

\* result.update(**kwargs) for one keyword.
With(r, k, v) == [[r EXCEPT ![k] = v] EXCEPT !.keys = @ \cup {k}]

Failure(action, subject, e) == With(Result(FALSE, action, subject), "error", e)

NoResult == Result(FALSE, "none", "none")

\* A return value that is no envelope: the bare boolean b.
Bare(b) == [Result(b, "none", "none") EXCEPT !.keys = {}]

\* The invocation: the operation's name, its file_name, its version, its
\* output_directory or output_filename and its format.
NoCall ==
    [op |-> "none", file_name |-> NoText, version |-> 0, directory |-> NoText,
     format |-> "none"]
Call(op, name, v) == [NoCall EXCEPT !.op = op, !.file_name = name, !.version = v]

\* No coroutine is in progress.
NoTasks == <<>>

\* os.path.join(base_path, file_name) with base_dir left unset.
Joined(name) == PathJoin(<<DOT>>, name)

----------------------------------------------------------------------------
(* SpecResolve: _resolve_under_restriction on every candidate and layout *)

Candidates ==
    { <<>>, <<DOT>>, <<"a">>, <<"b">>, <<DOT, SEP, "a">>, <<"d", SEP, "a">>,
      <<"d", SEP, DOT, DOT, SEP, "a">>, <<DOT, DOT>>,
      <<DOT, DOT, SEP, "r">>, <<DOT, DOT, SEP, "r", SEP, "a">>,
      <<DOT, DOT, SEP, "r", "x">>, <<DOT, DOT, SEP, "r", "x", SEP, "f">>,
      <<DOT, DOT, SEP, "o", SEP, "f">>,
      <<DOT, DOT, SEP, DOT, DOT, SEP, DOT, DOT, SEP, "e">>,
      <<SEP, "o", SEP, "f">>, <<SEP, "r", SEP, "a">>, <<SEP, "r", "x", SEP, "f">>,
      <<SEP>>, <<SEP, SEP>>,
      <<"l">>, <<"l", SEP, "f">>, <<"k", SEP, "a">>, <<"s">>,
      <<"k", SEP, DOT, DOT, SEP, "a">>, <<"l", SEP, DOT, DOT, SEP, "r", SEP, "a">> }

Pending == [ok |-> FALSE, path |-> <<>>, error |-> <<"pending">>]

InitResolve ==
    /\ fs \in {PlainLayout, LinkLayout, MovedLayout}
    /\ cand = <<>>
    /\ res = Pending
    /\ versions = <<>>
    /\ saved = <<>>
    /\ call = NoCall
    /\ ret = NoResult
    /\ tasks = NoTasks
    /\ valves = DefaultValves

\* The base_dir arguments the public operations join the name onto.
BaseDirs == { <<DOT>>, <<"d">>, <<DOT, DOT>>, <<"l">>, <<SEP, "r", "x">> }

\* A public operation resolves os.path.join(base_path, file_name).
CallResolve ==
    \E b \in BaseDirs, c \in Candidates :
        /\ cand' = PathJoin(b, c)
        /\ res' = ResolveUnderRestriction(fs, PathJoin(b, c))
        /\ UNCHANGED <<fs, versions, saved, call, ret, tasks, valves>>

SpecResolve == InitResolve /\ [][CallResolve]_vars

----------------------------------------------------------------------------
(* The public operations *)

Contents == {C1Data, C2Data}

\* A table whose every list reads as empty.
VersionsOfNone(v, key) == <<>>

\* self.versions[key] of the defaultdict: the list, empty when the key is new.
VersionsOf(v, key) == IF key \in DOMAIN v THEN v[key] ELSE <<>>

\* A read that empties the key's list.
TouchForgets(v, key) == (key :> <<>>) @@ v

\* Reading self.versions[key] enters a new key with an empty list.
Touch(v, key) == IF key \in DOMAIN v THEN v ELSE (key :> <<>>) @@ v

AllSnapshots(v) == { v[k][i] : <<k, i>> \in { x \in (DOMAIN v) \X (1..MaxVersions) : x[2] <= Len(v[x[1]]) } }

RECURSIVE SumLen(_, _)
SumLen(v, ks) ==
    IF ks = {} THEN 0
    ELSE LET k == CHOOSE x \in ks : TRUE IN Len(v[k]) + SumLen(v, ks \ {k})

Recorded(v) == SumLen(v, DOMAIN v)

Init ==
    /\ fs = LinkLayout
    /\ cand = <<>>
    /\ res = Pending
    /\ versions = <<>>
    /\ saved = <<>>
    /\ call = NoCall
    /\ ret = NoResult
    /\ tasks = NoTasks
    /\ valves = DefaultValves

\* Tools.write_to_file and Tools.create_file: the same steps under two action tags.
WriteOp(op, action, failText, name, c) ==
    LET r == ResolveUnderRestriction(fs, Joined(name))
        w == AtomicWrite(fs, r.path, c)
    IN  /\ call' = Call(op, name, 0)
        /\ IF ~r.ok
           THEN /\ ret' = Failure(action, "file", r.error)
                /\ fs' = fs
           ELSE IF ~w.ok
           THEN /\ ret' = Failure(action, "file", <<failText>> \o w.error)
                /\ fs' = w.fs
           ELSE /\ ret' = With(Result(TRUE, action, "file"), "path",
                               GetRelativePath(fs, r.path))
                /\ fs' = w.fs
        /\ UNCHANGED <<cand, res, valves, versions, saved, tasks>>

WriteToFile(name, c) == WriteOp("write_to_file", "write", "Failed to write file: ", name, c)

CreateFile(name, c) == WriteOp("create_file", "create", "Failed to create file: ", name, c)

\* Tools.delete_file
DeleteFile(name) ==
    LET r == ResolveUnderRestriction(fs, Joined(name))
        d == Remove(fs, r.path)
    IN  /\ call' = Call("delete_file", name, 0)
        /\ UNCHANGED saved
        /\ IF ~r.ok
           THEN /\ ret' = Failure("delete", "file", r.error)
                /\ fs' = fs
           ELSE IF ~Exists(fs, r.path)
           THEN /\ ret' = With(Failure("delete", "file", <<"File does not exist">>),
                               "path", GetRelativePath(fs, r.path))
                /\ fs' = fs
           ELSE IF IsDir(fs, r.path)
           THEN /\ ret' = Failure("delete", "file", <<"Path is a directory">>)
                /\ fs' = fs
           ELSE IF ~d.ok
           THEN /\ ret' = Failure("delete", "file", <<"Failed to delete file: ">> \o d.error)
                /\ fs' = fs
           ELSE /\ ret' = With(Result(TRUE, "delete", "file"), "path",
                               GetRelativePath(fs, r.path))
                /\ fs' = d.fs
        /\ UNCHANGED <<cand, res, valves, versions, saved, tasks>>

\* datetime.datetime.now().strftime("%Y%m%d_%H%M%S"): the text of the second
\* in which the call runs; two calls may run within the same second.
Timestamps == { <<"T0">>, <<"T1">> }
SameSecond == { <<"T0">> }

\* f"{base_name}_v{version_index}_{timestamp}{ext}"
VersionName(name, index, t) ==
    SplitExt(name)[1] \o <<"_v">> \o <<ToString(index)>> \o <<"_">> \o t
    \o SplitExt(name)[2]

\* A next index that does not count the versions recorded.
NextIndexStuck(v, key) == 1

\* len(self.versions[version_key]) + 1
NextIndex(v, key) == Len(VersionsOf(v, key)) + 1

\* An append that drops the paths recorded before.
AppendForgets(v, key, path) == (key :> <<path>>) @@ v

\* self.versions[version_key].append(version_path)
AppendVersion(v, key, path) == (key :> Append(VersionsOf(v, key), path)) @@ v

\* Tools.save_file_version
SaveFileVersion(name, now) ==
    LET r == ResolveUnderRestriction(fs, Joined(name))
        key == r.path
        index == NextIndex(versions, key)
        vr == ResolveUnderRestriction(fs, Joined(VersionName(name, index, now)))
        c == Copy2(fs, key, vr.path)
    IN  /\ Recorded(versions) < MaxVersions
        /\ call' = Call("save_file_version", name, 0)
        /\ IF ~r.ok
           THEN /\ ret' = Failure("version_save", "file", r.error)
                /\ UNCHANGED <<fs, versions, saved>>
           ELSE IF ~Exists(fs, key)
           THEN /\ ret' = With(Failure("version_save", "file", <<"File does not exist">>),
                               "path", GetRelativePath(fs, key))
                /\ UNCHANGED <<fs, versions, saved>>
           ELSE IF ~IsFile(fs, key)
           THEN /\ ret' = Failure("version_save", "file", <<"Path is not a file">>)
                /\ UNCHANGED <<fs, versions, saved>>
           ELSE IF IsLink(fs, key)
           THEN /\ ret' = Failure("version_save", "file", <<"Cannot version symlinks">>)
                /\ UNCHANGED <<fs, versions, saved>>
           ELSE IF ~vr.ok
           THEN /\ ret' = Failure("version_save", "file", vr.error)
                /\ fs' = fs
                /\ versions' = Touch(versions, key)
                /\ saved' = Touch(saved, key)
           ELSE IF ~c.ok
           THEN /\ ret' = Failure("version_save", "file",
                                  <<"Failed to save version: ">> \o c.error)
                /\ fs' = c.fs
                /\ versions' = Touch(versions, key)
                /\ saved' = Touch(saved, key)
           ELSE /\ ret' = With(With(With(Result(TRUE, "version_save", "file"),
                               "version", index),
                               "version_path", GetRelativePath(fs, vr.path)),
                               "original_path", GetRelativePath(fs, key))
                /\ fs' = c.fs
                /\ versions' = AppendVersion(versions, key, vr.path)
                /\ saved' = AppendVersion(saved, key, fs[key].content)
        /\ UNCHANGED <<cand, res, valves, tasks>>

\* A restore that always takes the latest snapshot.
SnapshotAtLast(seq, version) == seq[Len(seq)]

\* self.versions[version_key][version - 1]; sequences here start at 1.
SnapshotAt(seq, version) == seq[version]

\* A restore that does not look for the snapshot on disk.
SnapshotNeverMissing(f, vpath) == FALSE

\* not await aiofiles.os.path.exists(version_path)
SnapshotMissing(f, vpath) == ~Exists(f, vpath)

RangeErrorText == <<"Version does not exist">>
MissingErrorText == <<"Version file no longer exists">>

\* Tools.restore_file_version
RestoreFileVersion(name, version) ==
    LET r == ResolveUnderRestriction(fs, Joined(name))
        key == r.path
        available == Len(VersionsOf(versions, key))
        vpath == SnapshotAt(VersionsOf(versions, key), version)
        e == EnsureParentDir(fs, key)
        c == Copy2(e.fs, vpath, key)
    IN  /\ call' = Call("restore_file_version", name, version)
        /\ IF ~r.ok
           THEN /\ ret' = Failure("version_restore", "file", r.error)
                /\ UNCHANGED <<fs, versions, saved>>
           ELSE /\ versions' = Touch(versions, key)
                /\ saved' = Touch(saved, key)
                /\ IF version < 1 \/ version > available
                   THEN /\ ret' = With(With(Failure("version_restore", "file",
                                       RangeErrorText),
                                       "available", available), "requested", version)
                        /\ fs' = fs
                   ELSE IF SnapshotMissing(fs, vpath)
                   THEN /\ ret' = With(Failure("version_restore", "file",
                                       MissingErrorText),
                                       "version_path", GetRelativePath(fs, vpath))
                        /\ fs' = fs
                   ELSE IF ~e.ok
                   THEN /\ ret' = Failure("version_restore", "file",
                                          <<"Failed to restore version: ">> \o e.error)
                        /\ fs' = e.fs
                   ELSE IF ~c.ok
                   THEN /\ ret' = Failure("version_restore", "file",
                                          <<"Failed to restore version: ">> \o c.error)
                        /\ fs' = c.fs
                   ELSE /\ ret' = With(With(With(Result(TRUE, "version_restore", "file"),
                                       "path", GetRelativePath(fs, key)),
                                       "version", version),
                                       "version_path", GetRelativePath(fs, vpath))
                        /\ fs' = c.fs
        /\ UNCHANGED <<cand, res, valves, tasks>>

----------------------------------------------------------------------------
(* batch_rename_files *)

\* old_pattern in filename
Contains(s, pat) ==
    \E i \in 1..(Len(s) - Len(pat) + 1) : SubSeq(s, i, i + Len(pat) - 1) = pat

\* filename.replace(old_pattern, new_pattern): every occurrence, from the left.
RECURSIVE ReplaceAll(_, _, _)
ReplaceAll(s, old, new) ==
    IF s = <<>> THEN <<>>
    ELSE IF IsPrefixSeq(old, s)
         THEN new \o ReplaceAll(SubSeq(s, Len(old) + 1, Len(s)), old, new)
    ELSE <<Head(s)>> \o ReplaceAll(Tail(s), old, new)

\* os.listdir: the names of the entries of the directory d.
ListDir(f, d) == { BaseName(p) : p \in { q \in DOMAIN f : q # <<SEP>> /\ DirName(q) = d } }

\* The entries below the directory p.
Below(f, p) == { q \in DOMAIN f : StartsWith(q, p \o <<SEP>>) }

\* os.rename(old, new): the last name of neither path is followed; a file
\* replaces a file, a directory moves with what it holds.
Rename(f, old, new) ==
    LET o == LPath(f, old)
        n == LPath(f, new)
        moved == {o} \cup Below(f, o)
        To(q) == n \o SubSeq(q, Len(o) + 1, Len(q))
    IN  IF ~Has(f, o) THEN IErr(f, <<"FileNotFoundError">>)
        ELSE IF BaseName(new) = <<>> \/ ~IsDir(f, DirName(n))
             THEN IErr(f, <<"FileNotFoundError">>)
        ELSE IF o = n THEN IOk(f)
        ELSE IF f[o].kind # "dir" /\ Has(f, n) /\ f[n].kind = "dir"
             THEN IErr(f, <<"IsADirectoryError">>)
        ELSE IF f[o].kind = "dir" /\ Has(f, n) /\ f[n].kind # "dir"
             THEN IErr(f, <<"NotADirectoryError">>)
        ELSE IF f[o].kind = "dir" /\ Has(f, n) /\ Below(f, n) # {}
             THEN IErr(f, <<"OSError: Directory not empty">>)
        ELSE IF f[o].kind = "dir" /\ StartsWith(n, o \o <<SEP>>)
             THEN IErr(f, <<"OSError: Invalid argument">>)
        ELSE IOk([q \in ((DOMAIN f) \ moved) \cup { To(x) : x \in moved } |->
                    IF \E x \in moved : To(x) = q
                    THEN f[CHOOSE x \in moved : To(x) = q]
                    ELSE f[q]])

\* A loop that passes every name over.
RenameNone(acc, d, names, old, new) == acc

\* The loop of batch_rename_files over the listed names, in the order listed.
RECURSIVE RenameEach(_, _, _, _, _)
RenameEach(acc, d, names, old, new) ==
    IF names = <<>> THEN acc
    ELSE LET filename == Head(names)
             oldPath == PathJoin(d, filename)
             newPath == PathJoin(d, ReplaceAll(filename, old, new))
             r == Rename(acc.fs, oldPath, newPath)
             next ==
                 IF IsLink(acc.fs, oldPath)
                 THEN [acc EXCEPT !.failed =
                          Append(@, [from |-> filename, error |-> <<"Cannot rename symlinks">>])]
                 ELSE IF ~r.ok
                 THEN [acc EXCEPT !.failed = Append(@, [from |-> filename, error |-> r.error])]
                 ELSE [acc EXCEPT !.fs = r.fs,
                                  !.renamed = Append(@, [from |-> GetRelativePath(acc.fs, oldPath),
                                                         to |-> GetRelativePath(acc.fs, newPath)])]
         IN  RenameEach(next, d, Tail(names), old, new)

\* The orders in which os.listdir may give the names of a set.
Orders(S) ==
    { o \in [1..Cardinality(S) -> S] : \A i, j \in 1..Cardinality(S) : i # j => o[i] # o[j] }

\* Tools.batch_rename_files
BatchRenameFiles(directory, old, new) ==
    LET r == ResolveUnderRestriction(fs, directory)
        d == r.path
        matching == { x \in ListDir(fs, d) : Contains(x, old) }
    IN  /\ call' = Call("batch_rename_files", directory \o <<":">> \o old \o <<":">> \o new, 0)
        /\ IF ~r.ok
           THEN /\ ret' = Failure("batch_rename", "directory", r.error)
                /\ fs' = fs
           ELSE IF ~Exists(fs, d)
           THEN /\ ret' = With(Failure("batch_rename", "directory",
                                       <<"Directory does not exist">>),
                               "path", GetRelativePath(fs, d))
                /\ fs' = fs
           ELSE IF ~IsDir(fs, d)
           THEN /\ ret' = Failure("batch_rename", "directory", <<"Path is not a directory">>)
                /\ fs' = fs
           ELSE \E order \in Orders(matching) :
                    LET done == RenameEach([fs |-> fs, renamed |-> <<>>, failed |-> <<>>],
                                           d, order, old, new)
                    IN  /\ ret' = With(With(With(Result(TRUE, "batch_rename", "directory"),
                                       "renamed", done.renamed), "failed", done.failed),
                                       "path", GetRelativePath(fs, d))
                        /\ fs' = done.fs
        /\ UNCHANGED <<cand, res, valves, versions, saved, tasks>>

----------------------------------------------------------------------------
(* backup_files *)

\* The loop of _backup_files over the regular files that os.walk yields, in
\* the order yielded: the parent is made, the file is copied and counted, an
\* OSError is recorded.
RECURSIVE BackupEach(_, _, _, _)
BackupEach(acc, source, backup, files) ==
    IF files = <<>> THEN acc
    ELSE LET sfile == Head(files)
             bfile == PathJoin(backup, SubSeq(sfile, Len(source) + 2, Len(sfile)))
             m == MakeDirs(acc.fs, DirName(bfile))
             c == Copy2(m.fs, sfile, bfile)
             next ==
                 IF ~m.ok
                 THEN [acc EXCEPT !.failed =
                          Append(@, [file |-> GetRelativePath(acc.fs, sfile), error |-> m.error])]
                 ELSE IF ~c.ok
                 THEN [acc EXCEPT !.fs = m.fs, !.failed =
                          Append(@, [file |-> GetRelativePath(acc.fs, sfile), error |-> c.error])]
                 ELSE [acc EXCEPT !.fs = c.fs, !.count = @ + 1]
         IN  BackupEach(next, source, backup, Tail(files))

\* os.walk(source, followlinks=False) with the linked directories pruned and
\* the linked files skipped: the regular files below the source.  A link is
\* an entry of its own, and nothing lies below it.
WalkFiles(f, source) == { p \in Below(f, source) : f[p].kind = "file" }

\* The envelope of a backup that ran its loop.
BackupEnvelope(f, done, source, backup) ==
    With(With(With(With(With(Result(TRUE, "backup", "directory"),
         "message", <<"Backup completed">>),
         "files", done.count),
         "failed", done.failed),
         "src", GetRelativePath(f, source)),
         "backup", GetRelativePath(f, backup))

\* Tools.backup_files, with a backup directory that is not below the source.
BackupFiles(source, backup) ==
    LET sr == ResolveUnderRestriction(fs, source)
        br == ResolveUnderRestriction(fs, backup)
        m == MakeDirs(fs, br.path)
        Fail(text) == Failure("backup", "directory", text)
    IN  /\ call' = [Call("backup_files", source, 0) EXCEPT !.directory = backup]
        /\ IF ~sr.ok
           THEN ret' = Fail(sr.error) /\ fs' = fs
           ELSE IF ~br.ok
           THEN ret' = Fail(br.error) /\ fs' = fs
           ELSE IF ~Exists(fs, sr.path)
           THEN /\ ret' = With(Fail(<<"Source directory does not exist">>), "src",
                               GetRelativePath(fs, sr.path))
                /\ fs' = fs
           ELSE IF ~IsDir(fs, sr.path)
           THEN ret' = Fail(<<"Source path is not a directory">>) /\ fs' = fs
           ELSE IF ~m.ok
           THEN ret' = Fail(<<"Failed to backup: ">> \o m.error) /\ fs' = m.fs
           ELSE \E order \in Orders(WalkFiles(m.fs, sr.path)) :
                    /\ fs' = BackupEach([fs |-> m.fs, count |-> 0, failed |-> <<>>],
                                        sr.path, br.path, order).fs
                    /\ ret' = BackupEnvelope(fs,
                                  BackupEach([fs |-> m.fs, count |-> 0, failed |-> <<>>],
                                             sr.path, br.path, order),
                                  sr.path, br.path)
        /\ UNCHANGED <<cand, res, valves, versions, saved, tasks>>

----------------------------------------------------------------------------
(* decompress_file *)

\* str.endswith
EndsWith(s, suf) == Len(suf) <= Len(s) /\ SubSeq(s, Len(s) - Len(suf) + 1, Len(s)) = suf

\* member_path.lstrip('/')
RECURSIVE LStripSep(_)
LStripSep(s) == IF s # <<>> /\ Head(s) = SEP THEN LStripSep(Tail(s)) ELSE s

\* The loop of os.path.normpath over the components: "" and "." are
\* dropped; ".." removes the component kept last, is kept when the path is
\* relative and nothing or a ".." precedes it, is dropped at the root.
RECURSIVE NormAcc(_, _, _)
NormAcc(comps, kept, rooted) ==
    IF comps = <<>> THEN kept
    ELSE LET c == Head(comps)
             rest == Tail(comps)
         IN  IF c = <<>> \/ c = DotSeg THEN NormAcc(rest, kept, rooted)
             ELSE IF \/ c # DotDotSeg
                     \/ (~rooted /\ kept = <<>>)
                     \/ (kept # <<>> /\ kept[Len(kept)] = DotDotSeg)
                  THEN NormAcc(rest, Append(kept, c), rooted)
             ELSE IF kept # <<>>
                  THEN NormAcc(rest, SubSeq(kept, 1, Len(kept) - 1), rooted)
             ELSE NormAcc(rest, kept, rooted)

\* os.path.normpath: exactly two leading separators are kept, any other
\* number becomes one; an empty result is ".".
NormPath(s) ==
    LET slashes == IF ~IsAbs(s) THEN 0
                   ELSE IF Len(s) >= 2 /\ s[2] = SEP /\ ~(Len(s) >= 3 /\ s[3] = SEP)
                        THEN 2
                   ELSE 1
        body == JoinSegs(NormAcc(Split(s), <<>>, slashes > 0))
        path == (IF slashes = 2 THEN <<SEP, SEP>>
                 ELSE IF slashes = 1 THEN <<SEP>> ELSE <<>>) \o body
    IN  IF path = <<>> THEN <<DOT>> ELSE path

\* os.path.abspath: normpath of the path joined onto the working directory.
Cwd == RootDir
AbsPath(s) == NormPath(PathJoin(Cwd, s))

\* Tools._sanitize_archive_path: the path to extract to, or the ValueError.
SanitizeArchivePath(member, out) ==
    LET clean == NormPath(LStripSep(member))
        final == PathJoin(out, clean)
    IN  IF StartsWith(clean, DotDotSeg) \/ IsAbs(clean)
        THEN [ok |-> FALSE, path |-> <<>>, error |-> <<"Unsafe archive member path: ">> \o member]
        ELSE IF ~StartsWith(AbsPath(final), AbsPath(out))
        THEN [ok |-> FALSE, path |-> <<>>, error |-> <<"Archive member would extract outside target directory: ">>
                                         \o member]
        ELSE Resolved(final)

\* One member of an archive: its stored name, its kind and its bytes (for a
\* symbolic link, the text of its target).
Member(name, kind, data) == [name |-> name, kind |-> kind, data |-> data]
FileMember(name) == Member(name, "file", <<"m">> \o name)
DirMember(name) == Member(name, "dir", NoData)
LinkMember(name, t) == Member(name, "link", t)

\* The member lists of the archives, by the token that stands for the
\* archive's bytes.
MembersOf ==
    ("plain" :> << FileMember(<<"f">>), FileMember(<<"e", SEP, "g">>) >>)
    @@ ("late" :> << FileMember(<<"f">>), FileMember(<<DOT, DOT, SEP, "e">>) >>)
    @@ ("early" :> << FileMember(<<DOT, DOT, SEP, "e">>), FileMember(<<"f">>) >>)
    @@ ("inner" :> << FileMember(<<"e", SEP, DOT, DOT, SEP, DOT, DOT, SEP, "f">>) >>)
    @@ ("folded" :> << FileMember(<<"e", SEP, DOT, DOT, SEP, "g">>) >>)
    @@ ("rooted" :> << FileMember(<<SEP, "o", SEP, "f">>) >>)
    @@ ("dotted" :> << FileMember(<<DOT, DOT, "f">>) >>)
    @@ ("through" :> << FileMember(<<"l", SEP, "f">>) >>)
    @@ ("tree" :> << DirMember(<<"e">>), FileMember(<<"e", SEP, "g">>) >>)
    @@ ("linked" :> << LinkMember(<<"m">>, OutsideDir), FileMember(<<"m", SEP, "f">>) >>)
    @@ ("deep" :> << DirMember(<<"l", SEP, "e">>) >>)

\* An archive that stores nothing of the file.
PackNothing(format, name, bytes) == <<format, "packed">> \o name \o <<"|">>

\* The bytes that _compress_zip, _compress_tar and _compress_gztar write:
\* an archive of the format with one regular file under the name given.
Pack(format, name, bytes) == <<format, "packed">> \o name \o <<"|">> \o bytes

\* The members of an archive, in the order stored: of a packed archive the
\* one file between the mark and the bar, of another the list its token names.
Members(data) ==
    IF data[2] = "packed"
    THEN LET i == CHOOSE k \in 3..Len(data) :
                      data[k] = "|" /\ \A j \in 3..(k - 1) : data[j] # "|"
         IN  << Member(SubSeq(data, 3, i - 1), "file", SubSeq(data, i + 1, Len(data))) >>
    ELSE MembersOf[data[2]]

ZipSuffix == <<DOT, "zip">>
TarSuffix == <<DOT, "tar">>
TarGzSuffix == <<DOT, "tar", DOT, "gz">>
TgzSuffix == <<DOT, "tgz">>

\* A reader that takes the format from what the file holds.
OpensByContent(name, data) == Len(data) >= 2 /\ data[1] \in {"zip", "tar", "gztar"}

\* zipfile.ZipFile(file_path, "r") and tarfile.open(file_path, mode): mode
\* "r" reads a tar with or without compression, "r:gz" a gzipped one only.
\* The content of an archive file begins with its format; any other
\* content is no archive.
Opens(name, data) ==
    /\ Len(data) >= 2
    /\ data[1] \in {"zip", "tar", "gztar"}
    /\ IF EndsWith(name, ZipSuffix) THEN data[1] = "zip"
       ELSE IF EndsWith(name, TarGzSuffix) \/ EndsWith(name, TgzSuffix)
            THEN data[1] = "gztar"
       ELSE data[1] \in {"tar", "gztar"}

\* The state of an extraction: the filesystem so far, the paths extracted,
\* and the exception that ended it, if one did.
Extracting(f) == [fs |-> f, extracted |-> <<>>, raised |-> "none", error |-> NoText]
Raise(acc, f, kind, e) == [acc EXCEPT !.fs = f, !.raised = kind, !.error = e]

\* os.makedirs(os.path.dirname(safe_path), exist_ok=True), then
\* open(safe_path, 'wb') and the write of the member's bytes.
WriteMember(acc, safe, data) ==
    LET d == MakeDirs(acc.fs, DirName(safe))
        w == WriteThrough(d.fs, safe, data)
    IN  IF ~d.ok THEN Raise(acc, acc.fs, "OSError", d.error)
        ELSE IF ~w.ok THEN Raise(acc, d.fs, "OSError", w.error)
        ELSE [acc EXCEPT !.fs = w.fs,
                         !.extracted = Append(@, GetRelativePath(acc.fs, safe))]

\* The zip branch of Tools._decompress_archive: every name of namelist() is
\* sanitised, read and written as a file, in the order stored.
RECURSIVE ExtractZip(_, _, _)
ExtractZip(acc, members, out) ==
    IF members = <<>> THEN acc
    ELSE LET m == Head(members)
             s == SanitizeArchivePath(m.name, out)
             next == WriteMember(acc, s.path, m.data)
         IN  IF ~s.ok THEN Raise(acc, acc.fs, "ValueError", s.error)
             ELSE IF next.raised # "none" THEN next
             ELSE ExtractZip(next, Tail(members), out)

\* The tar branch: every member's name is sanitised; a regular file is
\* written, a directory is made, a member of another kind is passed over.
RECURSIVE ExtractTar(_, _, _)
ExtractTar(acc, members, out) ==
    IF members = <<>> THEN acc
    ELSE LET m == Head(members)
             s == SanitizeArchivePath(m.name, out)
             d == MakeDirs(acc.fs, s.path)
             next == IF m.kind = "file" THEN WriteMember(acc, s.path, m.data)
                     ELSE IF m.kind = "dir"
                          THEN IF d.ok THEN [acc EXCEPT !.fs = d.fs]
                               ELSE Raise(acc, acc.fs, "OSError", d.error)
                     ELSE acc
         IN  IF ~s.ok THEN Raise(acc, acc.fs, "ValueError", s.error)
             ELSE IF next.raised # "none" THEN next
             ELSE ExtractTar(next, Tail(members), out)

\* Tools._decompress_archive
DecompressArchive(f, filePath, out, name) ==
    LET data == f[filePath].content
        isZip == EndsWith(name, ZipSuffix)
        isTar == \/ EndsWith(name, TarSuffix)
                 \/ EndsWith(name, TarGzSuffix)
                 \/ EndsWith(name, TgzSuffix)
    IN  IF ~isZip /\ ~isTar
        THEN Raise(Extracting(f), f, "ValueError", <<"Unsupported archive format">>)
        ELSE IF ~Opens(name, data)
        THEN Raise(Extracting(f), f, "ArchiveError", <<"not an archive">>)
        ELSE IF isZip THEN ExtractZip(Extracting(f), Members(data), out)
        ELSE ExtractTar(Extracting(f), Members(data), out)

\* The envelope decompress_file returns once _decompress_archive has
\* returned or raised.
DecompressEnvelope(f, x, out) ==
    LET Fail(text) == Failure("decompress", "file", text)
    IN  IF x.raised = "ValueError" THEN Fail(x.error)
        ELSE IF x.raised = "ArchiveError" THEN Fail(<<"Archive error: ">> \o x.error)
        ELSE IF x.raised = "OSError"
             THEN Fail(<<"Failed to decompress file: ">> \o x.error)
        ELSE With(With(With(With(Result(TRUE, "decompress", "file"),
                  "message", <<"Decompressed successfully">>),
                  "output", GetRelativePath(f, out)),
                  "extracted_files", x.extracted),
                  "count", Len(x.extracted))

\* Tools.decompress_file
DecompressFile(name, directory) ==
    LET fr == ResolveUnderRestriction(fs, Joined(name))
        dr == ResolveUnderRestriction(fs, Joined(directory))
        e == EnsureParentDir(fs, dr.path)
        m == MakeDirs(e.fs, dr.path)
        x == DecompressArchive(m.fs, fr.path, dr.path, name)
        Fail(text) == Failure("decompress", "file", text)
    IN  /\ call' = [Call("decompress_file", name, 0) EXCEPT !.directory = directory]
        /\ IF ~fr.ok
           THEN ret' = Fail(fr.error) /\ fs' = fs
           ELSE IF ~dr.ok
           THEN ret' = Fail(dr.error) /\ fs' = fs
           ELSE IF ~Exists(fs, fr.path)
           THEN /\ ret' = With(Fail(<<"Archive file does not exist">>), "path",
                               GetRelativePath(fs, fr.path))
                /\ fs' = fs
           ELSE IF ~IsFile(fs, fr.path)
           THEN ret' = Fail(<<"Archive path is not a file">>) /\ fs' = fs
           ELSE IF IsLink(fs, fr.path)
           THEN ret' = Fail(<<"Cannot decompress symlinks">>) /\ fs' = fs
           ELSE IF ~e.ok
           THEN ret' = Fail(<<"Failed to decompress file: ">> \o e.error) /\ fs' = e.fs
           ELSE IF ~m.ok
           THEN ret' = Fail(<<"Failed to decompress file: ">> \o m.error) /\ fs' = m.fs
           ELSE /\ fs' = x.fs
                /\ ret' = DecompressEnvelope(fs, x, dr.path)
        /\ UNCHANGED <<cand, res, valves, versions, saved, tasks>>

\* Tools.is_file and Tools.is_directory: the path is resolved as it is given.
ToolsIsFile(path) ==
    LET r == ResolveUnderRestriction(fs, path)
    IN  /\ call' = Call("is_file", path, 0)
        /\ ret' = Bare(r.ok /\ IsFile(fs, r.path))
        /\ UNCHANGED <<fs, cand, res, valves, versions, saved, tasks>>

ToolsIsDirectory(path) ==
    LET r == ResolveUnderRestriction(fs, path)
    IN  /\ call' = Call("is_directory", path, 0)
        /\ ret' = Bare(r.ok /\ IsDir(fs, r.path))
        /\ UNCHANGED <<fs, cand, res, valves, versions, saved, tasks>>

\* Tools.copy_file
CopyFile(name, dest) ==
    LET sr == ResolveUnderRestriction(fs, Joined(name))
        dr == ResolveUnderRestriction(fs, Joined(dest))
        e == EnsureParentDir(fs, dr.path)
        c == Copy2(e.fs, sr.path, dr.path)
        Fail(text) == Failure("copy", "file", text)
    IN  /\ call' = [Call("copy_file", name, 0) EXCEPT !.directory = dest]
        /\ IF ~sr.ok
           THEN ret' = Fail(sr.error) /\ fs' = fs
           ELSE IF ~dr.ok
           THEN ret' = Fail(dr.error) /\ fs' = fs
           ELSE IF ~Exists(fs, sr.path)
           THEN /\ ret' = With(Fail(<<"Source file does not exist">>), "src",
                               GetRelativePath(fs, sr.path))
                /\ fs' = fs
           ELSE IF ~IsFile(fs, sr.path)
           THEN ret' = Fail(<<"Source path is not a file">>) /\ fs' = fs
           ELSE IF IsLink(fs, sr.path)
           THEN ret' = Fail(<<"Cannot copy symlinks">>) /\ fs' = fs
           ELSE IF ~e.ok
           THEN ret' = Fail(<<"Failed to copy file: ">> \o e.error) /\ fs' = e.fs
           ELSE IF ~c.ok
           THEN ret' = Fail(<<"Failed to copy file: ">> \o c.error) /\ fs' = c.fs
           ELSE /\ ret' = With(With(Result(TRUE, "copy", "file"),
                               "src", GetRelativePath(fs, sr.path)),
                               "dst", GetRelativePath(fs, dr.path))
                /\ fs' = c.fs
        /\ UNCHANGED <<cand, res, valves, versions, saved, tasks>>

\* Tools.compress_file
CompressFile(name, output, format) ==
    LET fr == ResolveUnderRestriction(fs, Joined(name))
        or == ResolveUnderRestriction(fs, Joined(output))
        e == EnsureParentDir(fs, or.path)
        w == WriteThrough(e.fs, or.path,
                          Pack(format, BaseName(fr.path), fs[fr.path].content))
        Fail(text) == Failure("compress", "file", text)
    IN  /\ call' = [Call("compress_file", name, 0) EXCEPT !.directory = output,
                                                           !.format = format]
        /\ IF ~fr.ok
           THEN ret' = Fail(fr.error) /\ fs' = fs
           ELSE IF ~or.ok
           THEN ret' = Fail(or.error) /\ fs' = fs
           ELSE IF ~Exists(fs, fr.path)
           THEN /\ ret' = With(Fail(<<"Source file does not exist">>), "path",
                               GetRelativePath(fs, fr.path))
                /\ fs' = fs
           ELSE IF ~IsFile(fs, fr.path)
           THEN ret' = Fail(<<"Source path is not a file">>) /\ fs' = fs
           ELSE IF IsLink(fs, fr.path)
           THEN ret' = Fail(<<"Cannot compress symlinks">>) /\ fs' = fs
           ELSE IF ~e.ok
           THEN ret' = Fail(<<"Failed to compress file: ">> \o e.error) /\ fs' = e.fs
           ELSE IF format \notin {"zip", "tar", "gztar"}
           THEN /\ ret' = Fail(<<"Unsupported compression format: ", format>>)
                /\ fs' = e.fs
           ELSE IF ~w.ok
           THEN ret' = Fail(<<"Failed to compress file: ">> \o w.error) /\ fs' = w.fs
           ELSE /\ ret' = With(With(With(Result(TRUE, "compress", "file"),
                               "message", <<"Compressed successfully">>),
                               "output", GetRelativePath(fs, or.path)),
                               "format", format)
                /\ fs' = w.fs
        /\ UNCHANGED <<cand, res, valves, versions, saved, tasks>>

----------------------------------------------------------------------------
(* Spec: writes, deletions and batch renames, one after the other *)

\* The file_name arguments: a file of the root, a path through the link
\* that leaves the root and a path that climbs out of the root.
FileNames ==
    { <<"a">>, <<"l", SEP, "f">>, <<DOT, DOT, SEP, "o", SEP, "f">> }

Directories == { <<DOT>>, <<"d">>, <<DOT, DOT, SEP, "o">> }
OldPatterns == { <<"a">> }
NewPatterns == { <<"b">>, <<DOT, DOT, SEP, "o", SEP, "e">> }

Next ==
    \/ \E name \in FileNames, c \in Contents : WriteToFile(name, c)
    \/ \E name \in FileNames, c \in Contents : CreateFile(name, c)
    \/ \E name \in FileNames : DeleteFile(name)
    \/ \E directory \in Directories, old \in OldPatterns, new \in NewPatterns :
           BatchRenameFiles(directory, old, new)

Spec == Init /\ [][Next]_vars

----------------------------------------------------------------------------
(* SpecVersion: writes, deletions, saves and restores, one after the other *)

\* The file_name arguments: a file of the root and a file with an extension
\* that is missing at first.
VersionNames == { <<"a">>, <<"n", DOT, "t">> }

\* The file written and deleted between the saves.
WrittenNames == { <<"n", DOT, "t">> }

\* A file is written; an original, or a recorded snapshot by its path, is
\* deleted; a version is saved, the calls of a run falling within one
\* second so that the timestamp does not tell two snapshot names apart; a
\* version in or out of range is restored.
NextVersion ==
    \/ \E name \in WrittenNames, c \in Contents : WriteToFile(name, c)
    \/ \E name \in WrittenNames \cup AllSnapshots(versions) : DeleteFile(name)
    \/ \E name \in VersionNames, now \in SameSecond : SaveFileVersion(name, now)
    \/ \E name \in VersionNames, version \in 0..(MaxVersions + 1) :
           RestoreFileVersion(name, version)

SpecVersion == Init /\ [][NextVersion]_vars

----------------------------------------------------------------------------
(* SpecArchive: decompress_file on an archive stored in the root *)

\* The names an archive is stored under.
ArchiveNames == { <<"z", DOT, "zip">>, <<"z", DOT, "tar">> }

\* The file_name arguments: the archives and a file that is none.
DecompressNames == ArchiveNames \cup { <<"a">>, <<"q", DOT, "zip">> }

\* The output_directory arguments: the root, a directory to create, and a
\* path that leaves the root.
OutputDirectories == { <<DOT>>, <<"u">>, <<DOT, DOT, SEP, "o">> }

InitArchive ==
    /\ \E name \in ArchiveNames, format \in {"zip", "tar"}, id \in DOMAIN MembersOf :
          fs = Put(LinkLayout, P(name), FileNode(<<format, id>>))
    /\ cand = <<>>
    /\ res = Pending
    /\ versions = <<>>
    /\ saved = <<>>
    /\ call = NoCall
    /\ ret = NoResult
    /\ tasks = NoTasks
    /\ valves = DefaultValves

NextArchive ==
    \E name \in DecompressNames, directory \in OutputDirectories :
        DecompressFile(name, directory)

SpecArchive == InitArchive /\ [][NextArchive]_vars

----------------------------------------------------------------------------
(* SpecAtomic: one _atomic_write at a time, step by step, beside a reader *)

\* What a path holds, Absent when it holds nothing.
Absent == [kind |-> "none", content |-> NoData, target |-> NoData]
NodeAt(f, p) == IF Has(f, p) THEN f[p] ELSE Absent

\* The reader has not read since the write began.
Unread == [kind |-> "unread", content |-> NoData, target |-> NoData]

\* The locals of the writing coroutine: where it stands, file_path, content,
\* temp_path, the pieces of content written so far, what file_path held when
\* the write began and whether mkstemp has made the temporary file.
NoWrite ==
    [pc |-> "idle", path |-> NoText, content |-> NoData, temp |-> NoText,
     written |-> 0, prior |-> Absent, created |-> FALSE]

\* The contents written: in two pieces and in one.
WrittenContents == { <<"n1", "n2">>, <<"k1">> }

\* The targets: a file, a new name, a directory and a name under a
\* directory to be made.
WrittenTargets == { <<"a">>, <<"b">>, <<"d">>, <<"e", SEP, "b">> }

InitAtomic ==
    /\ fs = LinkLayout
    /\ cand = <<>>
    /\ res = Pending
    /\ versions = <<>>
    /\ saved = <<>>
    /\ call = NoCall
    /\ ret = NoResult
    /\ tasks = [w |-> NoWrite, r |-> Unread]
    /\ valves = DefaultValves

\* write_to_file resolves the name and enters _atomic_write.
AStart(name, c) ==
    LET r == ResolveUnderRestriction(fs, Joined(name))
    IN  /\ tasks.w.pc \in {"idle", "done", "raised"}
        /\ r.ok
        /\ tasks' = [w |-> [pc |-> "ensure", path |-> r.path, content |-> c,
                            temp |-> NoText, written |-> 0,
                            prior |-> NodeAt(fs, r.path), created |-> FALSE],
                     r |-> Unread]
        /\ UNCHANGED <<fs, cand, res, valves, versions, saved, call, ret>>

\* await self._ensure_parent_dir(file_path)
AEnsureParent ==
    LET e == EnsureParentDir(fs, tasks.w.path)
    IN  /\ tasks.w.pc = "ensure"
        /\ fs' = e.fs
        /\ tasks' = [tasks EXCEPT !.w = [@ EXCEPT !.pc = IF e.ok THEN "mkstemp" ELSE "raised"]]
        /\ UNCHANGED <<cand, res, valves, versions, saved, call, ret>>

\* tempfile.mkstemp(dir=os.path.dirname(file_path)): an empty file under a
\* name the directory does not hold.
AMkstemp ==
    /\ tasks.w.pc = "mkstemp"
    /\ ~Has(fs, TempPath(tasks.w.path))
    /\ fs' = Put(fs, TempPath(tasks.w.path), FileNode(NoData))
    /\ tasks' = [tasks EXCEPT !.w = [@ EXCEPT !.pc = "open", !.created = TRUE,
                                              !.temp = TempPath(tasks.w.path)]]
    /\ UNCHANGED <<cand, res, valves, versions, saved, call, ret>>

\* os.close(temp_fd) and aiofiles.open(temp_path, 'w'): the temporary file
\* is opened anew, empty.
AOpen ==
    /\ tasks.w.pc = "open"
    /\ fs' = Put(fs, tasks.w.temp, FileNode(NoData))
    /\ tasks' = [tasks EXCEPT !.w = [@ EXCEPT !.pc = "write"]]
    /\ UNCHANGED <<cand, res, valves, versions, saved, call, ret>>

\* A write that goes to the target itself.
WriteDestTarget(w) == w.path

\* The file that temp_file.write fills: the temporary file.
WriteDest(w) == w.temp

\* await temp_file.write(content): the content reaches the file piece by piece.
AWrite ==
    /\ tasks.w.pc = "write"
    /\ tasks.w.written < Len(tasks.w.content)
    /\ fs' = Put(fs, WriteDest(tasks.w),
                 FileNode(SubSeq(tasks.w.content, 1, tasks.w.written + 1)))
    /\ tasks' = [tasks EXCEPT !.w.written = @ + 1]
    /\ UNCHANGED <<cand, res, valves, versions, saved, call, ret>>

\* The end of the async with block: the temporary file is closed.
AClose ==
    /\ tasks.w.pc = "write"
    /\ tasks.w.written = Len(tasks.w.content)
    /\ tasks' = [tasks EXCEPT !.w = [@ EXCEPT !.pc = "replace"]]
    /\ UNCHANGED <<fs, cand, res, valves, versions, saved, call, ret>>

\* await aiofiles.os.replace(temp_path, file_path)
AReplace ==
    LET r == Replace(fs, tasks.w.temp, tasks.w.path)
    IN  /\ tasks.w.pc = "replace"
        /\ fs' = r.fs
        /\ tasks' = [tasks EXCEPT !.w = [@ EXCEPT !.pc = IF r.ok THEN "done" ELSE "cleanup"]]
        /\ UNCHANGED <<cand, res, valves, versions, saved, call, ret>>

\* The step at hand inside the try block raises an Exception.
AFail ==
    /\ tasks.w.pc \in {"open", "write", "replace"}
    /\ tasks' = [tasks EXCEPT !.w = [@ EXCEPT !.pc = "cleanup"]]
    /\ UNCHANGED <<fs, cand, res, valves, versions, saved, call, ret>>

\* A handler that leaves the temporary file behind.
UnlinkKeeps(f, p) == f

\* await aiofiles.os.unlink(temp_path), an OSError passed over.
Unlink(f, p) == IF Has(f, p) THEN Drop(f, p) ELSE f

\* except Exception: the temporary file is unlinked and the exception raised again.
ACleanup ==
    /\ tasks.w.pc = "cleanup"
    /\ fs' = Unlink(fs, tasks.w.temp)
    /\ tasks' = [tasks EXCEPT !.w = [@ EXCEPT !.pc = "raised"]]
    /\ UNCHANGED <<cand, res, valves, versions, saved, call, ret>>

\* Another coroutine reads the target of the write in progress.
ARead ==
    /\ tasks.w.pc # "idle"
    /\ tasks' = [tasks EXCEPT !.r = NodeAt(fs, tasks.w.path)]
    /\ UNCHANGED <<fs, cand, res, valves, versions, saved, call, ret>>

NextAtomic ==
    \/ \E name \in WrittenTargets, c \in WrittenContents : AStart(name, c)
    \/ AEnsureParent
    \/ AMkstemp
    \/ AOpen
    \/ AWrite
    \/ AClose
    \/ AReplace
    \/ AFail
    \/ ACleanup
    \/ ARead

SpecAtomic == InitAtomic /\ [][NextAtomic]_vars

----------------------------------------------------------------------------
(* SpecConc: two save_file_version coroutines, step by step *)

\* The locals of a save_file_version coroutine: where it stands, file_name,
\* version_key, version_index, version_path and whether it returned ok=true.
NoSave ==
    [pc |-> "idle", name |-> NoText, key |-> NoText, index |-> 0,
     vpath |-> NoText, ok |-> FALSE]

Savers == {"t1", "t2"}

\* The file_name arguments: two files and a name that is no file.
SavedNames == { <<"a">>, <<"d", SEP, "a">>, <<"n", DOT, "t">> }

InitConc ==
    /\ fs = LinkLayout
    /\ cand = <<>>
    /\ res = Pending
    /\ versions = <<>>
    /\ saved = <<>>
    /\ call = NoCall
    /\ ret = NoResult
    /\ tasks = [t \in Savers |-> NoSave]
    /\ valves = DefaultValves

\* The coroutines between their call and their return.
InFlight == { t \in Savers : tasks[t].pc \notin {"idle", "returned"} }

\* The coroutine returns an envelope.
Return(w, ok) == [w EXCEPT !.pc = "returned", !.ok = ok]

\* The call: file_path is resolved.
CCall(t, name) ==
    LET r == ResolveUnderRestriction(fs, Joined(name))
    IN  /\ tasks[t].pc \in {"idle", "returned"}
        /\ Recorded(versions) + Cardinality(InFlight) < MaxVersions
        /\ tasks' = [tasks EXCEPT ![t] =
                        IF r.ok THEN [NoSave EXCEPT !.pc = "check", !.name = name,
                                                    !.key = r.path]
                        ELSE Return([NoSave EXCEPT !.name = name], FALSE)]
        /\ UNCHANGED <<fs, cand, res, valves, versions, saved, call, ret>>

\* The awaited exists, isfile and islink tests.
CCheck(t) ==
    /\ tasks[t].pc = "check"
    /\ tasks' = [tasks EXCEPT ![t] =
                    IF \/ ~Exists(fs, tasks[t].key)
                       \/ ~IsFile(fs, tasks[t].key)
                       \/ IsLink(fs, tasks[t].key)
                    THEN Return(@, FALSE)
                    ELSE [@ EXCEPT !.pc = "index"]]
    /\ UNCHANGED <<fs, cand, res, valves, versions, saved, call, ret>>

\* version_index, timestamp, version_name and version_path are computed
\* without an await between them.
CIndex(t, now) ==
    LET index == NextIndex(versions, tasks[t].key)
        vr == ResolveUnderRestriction(fs, Joined(VersionName(tasks[t].name, index, now)))
    IN  /\ tasks[t].pc = "index"
        /\ versions' = Touch(versions, tasks[t].key)
        /\ tasks' = [tasks EXCEPT ![t] =
                        IF vr.ok THEN [@ EXCEPT !.pc = "copy", !.index = index,
                                                !.vpath = vr.path]
                        ELSE Return(@, FALSE)]
        /\ UNCHANGED <<fs, cand, res, valves, saved, call, ret>>

\* shutil.copy2 runs in a worker thread while the coroutine awaits it.
CCopy(t) ==
    LET c == Copy2(fs, tasks[t].key, tasks[t].vpath)
    IN  /\ tasks[t].pc = "copy"
        /\ fs' = c.fs
        /\ tasks' = [tasks EXCEPT ![t] =
                        IF c.ok THEN [@ EXCEPT !.pc = "append"] ELSE Return(@, FALSE)]
        /\ UNCHANGED <<cand, res, valves, versions, saved, call, ret>>

\* self.versions[version_key].append(version_path) and the return.
CAppend(t) ==
    /\ tasks[t].pc = "append"
    /\ versions' = AppendVersion(versions, tasks[t].key, tasks[t].vpath)
    /\ tasks' = [tasks EXCEPT ![t] = Return(@, TRUE)]
    /\ UNCHANGED <<fs, cand, res, valves, saved, call, ret>>

NextConc ==
    \E t \in Savers :
        \/ \E name \in SavedNames : CCall(t, name)
        \/ CCheck(t)
        \/ \E now \in Timestamps : CIndex(t, now)
        \/ CCopy(t)
        \/ CAppend(t)

SpecConc == InitConc /\ [][NextConc]_vars

----------------------------------------------------------------------------
(* SpecPair and SpecCopy: writers, a copy and a reader of one file, step by step *)

Writers == {"w1", "w2"}

\* The locals of a write_to_file or create_file coroutine: where it stands,
\* file_path, content, temp_path, the pieces written so far, whether it
\* returned ok=true, and whether the other writer was at work on the same
\* file_path when it was called.
NoWriter ==
    [pc |-> "idle", path |-> NoText, content |-> NoData, temp |-> NoText,
     written |-> 0, ok |-> FALSE, overlapped |-> FALSE]

\* The locals of a coroutine that awaits shutil.copy2: where it stands, the
\* operation, source and destination, the version key of a save, the pieces
\* copied so far, whether the open source is still the file its name leads
\* to and what it held when it ceased to be, whether the open destination is
\* still the file its name leads to, and whether ok=true came back.
NoCopy ==
    [pc |-> "idle", op |-> "none", src |-> NoText, dst |-> NoText, key |-> NoText,
     copied |-> 0, live |-> FALSE, held |-> NoData, sink |-> FALSE, ok |-> FALSE]

\* The file that the writers, the copy and the reader share.
SharedFile == P(<<"a">>)

InitShare ==
    /\ fs = LinkLayout
    /\ cand = <<>>
    /\ res = Pending
    /\ versions = <<>>
    /\ saved = <<>>
    /\ call = NoCall
    /\ ret = NoResult
    /\ tasks = [w1 |-> NoWriter, w2 |-> NoWriter, k |-> NoCopy, r |-> Unread]
    /\ valves = DefaultValves

\* The names that mkstemp gives in a directory.
TempNamesIn(dir) == { PathJoin(dir, <<TempTok>>), PathJoin(dir, <<TempTok, "2">>) }

\* A mkstemp that gives every call the same name, whatever the directory
\* holds.
MkstempSame(f, dir) == { PathJoin(dir, <<TempTok>>) }

\* tempfile.mkstemp(dir=...): a name that the directory does not hold.
Mkstemp(f, dir) == { p \in TempNamesIn(dir) : ~Has(f, p) }

\* A write of one piece at the offset of an open file: the piece takes the
\* place i of what the file holds, the places before it that the file lacks
\* are a hole.
WriteAt(c, i, piece) ==
    [ j \in 1..(IF Len(c) > i THEN Len(c) ELSE i) |->
        IF j = i THEN piece ELSE IF j <= Len(c) THEN c[j] ELSE "hole" ]

\* The file at p after a write of one piece at place i through a handle
\* that was opened on p; a name that leads to no file any more is not
\* written.
PutPiece(f, p, i, piece) ==
    IF Has(f, p) /\ f[p].kind = "file"
    THEN Put(f, p, FileNode(WriteAt(f[p].content, i, piece)))
    ELSE f

\* open(p, "wb"): the file is created, or emptied where it stands.
OpenToWrite(f, p) == WriteThrough(f, p, NoData)

\* The coroutine returns its envelope.
Returned(w, ok) == [w EXCEPT !.pc = "returned", !.ok = ok]

\* write_to_file or create_file is called: file_path is resolved.
WCall(t, name, c) ==
    LET r == ResolveUnderRestriction(fs, Joined(name))
        other == CHOOSE u \in Writers : u # t
        busy == /\ tasks[other].pc \notin {"idle", "returned"}
                /\ tasks[other].path = r.path
    IN  /\ tasks[t].pc \in {"idle", "returned"}
        /\ tasks' = [tasks EXCEPT ![t] =
                        IF r.ok
                        THEN [NoWriter EXCEPT !.pc = "ensure", !.path = r.path,
                                              !.content = c, !.overlapped = busy]
                        ELSE Returned(NoWriter, FALSE)]
        /\ UNCHANGED <<fs, cand, res, valves, versions, saved, call, ret>>

\* await self._ensure_parent_dir(file_path)
WEnsureParent(t) ==
    LET e == EnsureParentDir(fs, tasks[t].path)
    IN  /\ tasks[t].pc = "ensure"
        /\ fs' = e.fs
        /\ tasks' = [tasks EXCEPT ![t] =
                        IF e.ok THEN [@ EXCEPT !.pc = "mkstemp"] ELSE Returned(@, FALSE)]
        /\ UNCHANGED <<cand, res, valves, versions, saved, call, ret>>

\* tempfile.mkstemp(dir=os.path.dirname(file_path)): an empty file.
WMkstemp(t) ==
    \E temp \in Mkstemp(fs, DirName(tasks[t].path)) :
        /\ tasks[t].pc = "mkstemp"
        /\ fs' = Put(fs, temp, FileNode(NoData))
        /\ tasks' = [tasks EXCEPT ![t] = [@ EXCEPT !.pc = "open", !.temp = temp]]
        /\ UNCHANGED <<cand, res, valves, versions, saved, call, ret>>

\* os.close(temp_fd) and aiofiles.open(temp_path, 'w'): the temporary file
\* is opened anew, empty.
WOpen(t) ==
    /\ tasks[t].pc = "open"
    /\ fs' = Put(fs, tasks[t].temp, FileNode(NoData))
    /\ tasks' = [tasks EXCEPT ![t] = [@ EXCEPT !.pc = "write"]]
    /\ UNCHANGED <<cand, res, valves, versions, saved, call, ret>>

\* await temp_file.write(content): the content reaches the file piece by piece.
WWrite(t) ==
    /\ tasks[t].pc = "write"
    /\ tasks[t].written < Len(tasks[t].content)
    /\ fs' = PutPiece(fs, WriteDest(tasks[t]), tasks[t].written + 1,
                      tasks[t].content[tasks[t].written + 1])
    /\ tasks' = [tasks EXCEPT ![t] = [@ EXCEPT !.written = @ + 1]]
    /\ UNCHANGED <<cand, res, valves, versions, saved, call, ret>>

\* The end of the async with block: the temporary file is closed.
WClose(t) ==
    /\ tasks[t].pc = "write"
    /\ tasks[t].written = Len(tasks[t].content)
    /\ tasks' = [tasks EXCEPT ![t] = [@ EXCEPT !.pc = "replace"]]
    /\ UNCHANGED <<fs, cand, res, valves, versions, saved, call, ret>>

\* The copy whose open source or destination is the file that dst names
\* keeps the file it opened, which no name leads to any more.
Detached(k, f, dst) ==
    IF k.pc = "copy" /\ k.live /\ RealPath(f, k.src) = dst
    THEN [k EXCEPT !.live = FALSE, !.held = f[dst].content]
    ELSE IF k.pc = "copy" /\ k.sink /\ k.dst = dst
    THEN [k EXCEPT !.sink = FALSE]
    ELSE k

\* await aiofiles.os.replace(temp_path, file_path)
WReplace(t) ==
    LET r == Replace(fs, tasks[t].temp, tasks[t].path)
    IN  /\ tasks[t].pc = "replace"
        /\ fs' = r.fs
        /\ tasks' = [tasks EXCEPT
                        ![t] = IF r.ok THEN Returned(@, TRUE) ELSE [@ EXCEPT !.pc = "cleanup"],
                        !.k = IF r.ok THEN Detached(@, fs, tasks[t].path) ELSE @]
        /\ UNCHANGED <<cand, res, valves, versions, saved, call, ret>>

\* except Exception: the temporary file is unlinked, the exception is raised
\* again and comes back as ok=false.
WCleanup(t) ==
    /\ tasks[t].pc = "cleanup"
    /\ fs' = Unlink(fs, tasks[t].temp)
    /\ tasks' = [tasks EXCEPT ![t] = Returned(@, FALSE)]
    /\ UNCHANGED <<cand, res, valves, versions, saved, call, ret>>

\* copy_file is called: the two paths are resolved and the source is tested.
KCopyFile(name, dest) ==
    LET s == ResolveUnderRestriction(fs, Joined(name))
        d == ResolveUnderRestriction(fs, Joined(dest))
    IN  /\ tasks.k.pc \in {"idle", "returned"}
        /\ tasks' = [tasks EXCEPT !.k =
                        IF \/ ~s.ok \/ ~d.ok
                           \/ ~Exists(fs, s.path) \/ ~IsFile(fs, s.path) \/ IsLink(fs, s.path)
                        THEN Returned([NoCopy EXCEPT !.op = "copy_file"], FALSE)
                        ELSE [NoCopy EXCEPT !.pc = "ensure", !.op = "copy_file",
                                            !.src = s.path, !.dst = d.path]]
        /\ UNCHANGED <<fs, cand, res, valves, versions, saved, call, ret>>

\* await self._ensure_parent_dir(dest_file_path)
KEnsureParent ==
    LET e == EnsureParentDir(fs, tasks.k.dst)
    IN  /\ tasks.k.pc = "ensure"
        /\ fs' = e.fs
        /\ tasks' = [tasks EXCEPT !.k =
                        IF e.ok THEN [@ EXCEPT !.pc = "open"] ELSE Returned(@, FALSE)]
        /\ UNCHANGED <<cand, res, valves, versions, saved, call, ret>>

\* save_file_version is called: the path is resolved and tested, the index
\* and the snapshot's path are computed.
KSaveFileVersion(name, now) ==
    LET r == ResolveUnderRestriction(fs, Joined(name))
        index == NextIndex(versions, r.path)
        vr == ResolveUnderRestriction(fs, Joined(VersionName(name, index, now)))
        refused == \/ ~r.ok
                   \/ ~Exists(fs, r.path) \/ ~IsFile(fs, r.path) \/ IsLink(fs, r.path)
    IN  /\ tasks.k.pc \in {"idle", "returned"}
        /\ Recorded(versions) < MaxVersions
        /\ versions' = IF refused THEN versions ELSE Touch(versions, r.path)
        /\ tasks' = [tasks EXCEPT !.k =
                        IF refused \/ ~vr.ok
                        THEN Returned([NoCopy EXCEPT !.op = "save_file_version"], FALSE)
                        ELSE [NoCopy EXCEPT !.pc = "open", !.op = "save_file_version",
                                            !.src = r.path, !.dst = vr.path,
                                            !.key = r.path]]
        /\ UNCHANGED <<fs, cand, res, valves, saved, call, ret>>

\* shutil.copy2 in its worker thread opens the source to read and the
\* destination to write: the destination is created, or emptied where it
\* stands.
KOpen ==
    LET k == tasks.k
        dst == IF IsDir(fs, k.dst) THEN PathJoin(k.dst, BaseName(k.src)) ELSE k.dst
        o == OpenToWrite(fs, dst)
        fails == \/ ~IsFile(fs, k.src)
                 \/ RealPath(fs, dst) = RealPath(fs, k.src)
                 \/ ~o.ok
    IN  /\ k.pc = "open"
        /\ fs' = IF fails THEN fs ELSE o.fs
        /\ tasks' = [tasks EXCEPT !.k =
                        IF fails THEN Returned(@, FALSE)
                        ELSE [@ EXCEPT !.pc = "copy", !.dst = RealPath(fs, dst),
                                       !.live = TRUE, !.sink = TRUE]]
        /\ UNCHANGED <<cand, res, valves, versions, saved, call, ret>>

\* What the open source holds now.
SourceData(f, k) == IF k.live THEN f[RealPath(f, k.src)].content ELSE k.held

\* The copy reads the next piece of the source and writes it to the
\* destination.
KPiece ==
    LET k == tasks.k
    IN  /\ k.pc = "copy"
        /\ k.copied < Len(SourceData(fs, k))
        /\ fs' = IF k.sink
                 THEN PutPiece(fs, k.dst, k.copied + 1, SourceData(fs, k)[k.copied + 1])
                 ELSE fs
        /\ tasks' = [tasks EXCEPT !.k = [@ EXCEPT !.copied = @ + 1]]
        /\ UNCHANGED <<cand, res, valves, versions, saved, call, ret>>

\* The source is at its end: shutil.copy2 returns, save_file_version
\* appends the snapshot's path, the envelope is returned.
KDone ==
    LET k == tasks.k
    IN  /\ k.pc = "copy"
        /\ k.copied >= Len(SourceData(fs, k))
        /\ versions' = IF k.op = "save_file_version"
                       THEN AppendVersion(versions, k.key, k.dst)
                       ELSE versions
        /\ tasks' = [tasks EXCEPT !.k = Returned(@, TRUE)]
        /\ UNCHANGED <<fs, cand, res, valves, saved, call, ret>>

\* Another coroutine reads the shared file.
RRead ==
    /\ tasks.r # NodeAt(fs, SharedFile)
    /\ tasks' = [tasks EXCEPT !.r = NodeAt(fs, SharedFile)]
    /\ UNCHANGED <<fs, cand, res, valves, versions, saved, call, ret>>

\* The steps of one writer.
WStep(t) ==
    \/ WEnsureParent(t)
    \/ WMkstemp(t)
    \/ WOpen(t)
    \/ WWrite(t)
    \/ WClose(t)
    \/ WReplace(t)
    \/ WCleanup(t)

\* The file_name arguments of the two writers: a file and a directory.
PairTargets == { <<"a">>, <<"d">> }

NextPair ==
    \E t \in Writers :
        \/ \E name \in PairTargets, c \in WrittenContents : WCall(t, name, c)
        \/ WStep(t)

SpecPair == InitShare /\ [][NextPair]_vars

\* The copy made by copy_file: a file over the shared file.
CopiedSource == <<"d", SEP, "a">>
CopiedDest == <<"a">>

\* The content written to the shared file beside the copy, in two pieces.
SharedContent == <<"n1", "n2">>

\* One writer of the shared file, whose replace finds no directory in its
\* way, one copy at a time and a reader.
NextCopy ==
    \/ WCall("w1", CopiedDest, SharedContent)
    \/ WEnsureParent("w1")
    \/ WMkstemp("w1")
    \/ WOpen("w1")
    \/ WWrite("w1")
    \/ WClose("w1")
    \/ WReplace("w1")
    \/ KCopyFile(CopiedSource, CopiedDest)
    \/ KEnsureParent
    \/ \E now \in SameSecond : KSaveFileVersion(CopiedDest, now)
    \/ KOpen
    \/ KPiece
    \/ KDone
    \/ RRead

SpecCopy == InitShare /\ [][NextCopy]_vars

----------------------------------------------------------------------------
(* SpecRestore: restore_file_version beside save_file_version coroutines *)

\* The locals of a restore_file_version coroutine: where it stands, the
\* version asked for, version_key, available_versions, version_path and
\* whether it returned ok=true.
NoRestore ==
    [pc |-> "idle", version |-> 0, key |-> NoText, available |-> 0,
     vpath |-> NoText, ok |-> FALSE]

\* The file saved and restored.
RestoredName == <<"a">>

\* The version arguments: below, in and above every range.
RestoredVersions == 0..(MaxVersions + 1)

InitRestore ==
    /\ fs = LinkLayout
    /\ cand = <<>>
    /\ res = Pending
    /\ versions = <<>>
    /\ saved = <<>>
    /\ call = NoCall
    /\ ret = NoResult
    /\ tasks = [t1 |-> NoSave, t2 |-> NoSave, q |-> NoRestore]
    /\ valves = DefaultValves

\* The call: the path is resolved, the length of the key's list is read,
\* the version is tested against it and the list is indexed, with no await
\* on the way.
QCall(name, version) ==
    LET r == ResolveUnderRestriction(fs, Joined(name))
        available == Len(VersionsOf(versions, r.path))
    IN  /\ tasks.q.pc \in {"idle", "returned"}
        /\ versions' = IF r.ok THEN Touch(versions, r.path) ELSE versions
        /\ tasks' = [tasks EXCEPT !.q =
                        IF ~r.ok \/ version < 1 \/ version > available
                        THEN Returned([NoRestore EXCEPT !.version = version,
                                                        !.available = available], FALSE)
                        ELSE [NoRestore EXCEPT
                                 !.pc = "exists", !.version = version, !.key = r.path,
                                 !.available = available,
                                 !.vpath = SnapshotAt(VersionsOf(versions, r.path), version)]]
        /\ UNCHANGED <<fs, cand, res, valves, saved, call, ret>>

\* await aiofiles.os.path.exists(version_path)
QExists ==
    /\ tasks.q.pc = "exists"
    /\ tasks' = [tasks EXCEPT !.q =
                    IF SnapshotMissing(fs, @.vpath) THEN Returned(@, FALSE)
                    ELSE [@ EXCEPT !.pc = "ensure"]]
    /\ UNCHANGED <<fs, cand, res, valves, versions, saved, call, ret>>

\* await self._ensure_parent_dir(file_path)
QEnsureParent ==
    LET e == EnsureParentDir(fs, tasks.q.key)
    IN  /\ tasks.q.pc = "ensure"
        /\ fs' = e.fs
        /\ tasks' = [tasks EXCEPT !.q =
                        IF e.ok THEN [@ EXCEPT !.pc = "copy"] ELSE Returned(@, FALSE)]
        /\ UNCHANGED <<cand, res, valves, versions, saved, call, ret>>

\* await asyncio.to_thread(shutil.copy2, version_path, file_path) and the
\* return.
QCopy ==
    LET c == Copy2(fs, tasks.q.vpath, tasks.q.key)
    IN  /\ tasks.q.pc = "copy"
        /\ fs' = c.fs
        /\ tasks' = [tasks EXCEPT !.q = Returned(@, c.ok)]
        /\ UNCHANGED <<cand, res, valves, versions, saved, call, ret>>

NextRestore ==
    \/ \E t \in Savers :
        \/ CCall(t, RestoredName)
        \/ CCheck(t)
        \/ \E now \in Timestamps : CIndex(t, now)
        \/ CCopy(t)
        \/ CAppend(t)
    \/ \E version \in RestoredVersions : QCall(RestoredName, version)
    \/ QExists
    \/ QEnsureParent
    \/ QCopy

SpecRestore == InitRestore /\ [][NextRestore]_vars

----------------------------------------------------------------------------
(* SpecBatch: batch_rename_files over entries that share a pattern *)

\* The directory d holds, beside its file a, a file ax, a link ay to a file
\* and a directory ex.
BatchLayout ==
    LinkLayout
    @@ (P(<<"d", SEP, "a", "x">>) :> FileNode(C1Data))
    @@ (P(<<"d", SEP, "a", "y">>) :> LinkNode(P(<<"a">>)))
    @@ (P(<<"d", SEP, "e", "x">>) :> DirNode)

InitBatch ==
    /\ fs = BatchLayout
    /\ cand = <<>>
    /\ res = Pending
    /\ versions = <<>>
    /\ saved = <<>>
    /\ call = NoCall
    /\ ret = NoResult
    /\ tasks = NoTasks
    /\ valves = DefaultValves

\* The directories: the one with the entries and a missing one.
BatchDirectories == { <<"d">>, <<"b">> }

\* The patterns: what is looked for in the names and what takes its place.
BatchOldPatterns == { <<"a">>, <<"x">>, <<"b">> }
BatchNewPatterns == { <<"b">>, <<"e">> }

NextBatch ==
    \E directory \in BatchDirectories, old \in BatchOldPatterns, new \in BatchNewPatterns :
        BatchRenameFiles(directory, old, new)

SpecBatch == InitBatch /\ [][NextBatch]_vars

----------------------------------------------------------------------------
(* SpecFail: one save_file_version at a time, step by step, its copy failing or not *)

\* The file_name arguments: a file, a name that is no file and a directory.
FailNames == { <<"a">>, <<"n", DOT, "t">>, <<"d">> }

\* shutil.copy2 raises an OSError that the state of the files does not
\* explain (no room, no permission), before or after it created the
\* destination; save_file_version returns ok=false.
CCopyRaises(t) ==
    /\ tasks[t].pc = "copy"
    /\ fs' \in { fs, OpenToWrite(fs, tasks[t].vpath).fs }
    /\ tasks' = [tasks EXCEPT ![t] = Return(@, FALSE)]
    /\ UNCHANGED <<cand, res, valves, versions, saved, call, ret>>

NextFail ==
    \/ \E name \in FailNames : CCall("t1", name)
    \/ CCheck("t1")
    \/ \E now \in Timestamps : CIndex("t1", now)
    \/ CCopy("t1")
    \/ CCopyRaises("t1")
    \/ CAppend("t1")

SpecFail == InitConc /\ [][NextFail]_vars

----------------------------------------------------------------------------
(* SpecRound: compress_file, then decompress_file of what it wrote *)

\* The files compressed: two regular files and a link to the first.
SourceNames == { <<"a">>, <<"d", SEP, "a">>, <<"s">> }

\* The output_filename arguments: one name for each suffix that
\* decompress_file knows, and a name with another suffix.
OutputNames ==
    { <<"z", DOT, "zip">>, <<"z", DOT, "tar">>, <<"z", DOT, "tar", DOT, "gz">>,
      <<"z", DOT, "dat">> }

\* The format arguments: the three formats and one that is none.
FormatNames == {"zip", "tar", "gztar", "rar"}

\* The output_directory arguments: a directory to create.
FreshDirectories == { <<"u">> }

\* The archives written so far.
Archives(f) == { output \in OutputNames : Exists(f, ResolveUnderRestriction(f, Joined(output)).path) }

NextRound ==
    \/ \E name \in SourceNames, output \in OutputNames, format \in FormatNames :
           /\ Cardinality(Archives(fs)) < MaxArchives
           /\ CompressFile(name, output, format)
    \/ \E name \in OutputNames, directory \in FreshDirectories :
           DecompressFile(name, directory)

SpecRound == Init /\ [][NextRound]_vars

----------------------------------------------------------------------------
(* SpecLink: compress_file and save_file_version on symbolic links *)

\* The file_name arguments: a regular file, a link to it, a link to a
\* directory of the root and a link that leaves the root.
LinkNames == { <<"a">>, <<"s">>, <<"k">>, <<"l">> }

NextLink ==
    \/ \E name \in LinkNames, output \in OutputNames, format \in FormatNames :
           /\ Cardinality(Archives(fs)) < MaxArchives
           /\ CompressFile(name, output, format)
    \/ \E name \in LinkNames, now \in SameSecond : SaveFileVersion(name, now)

SpecLink == Init /\ [][NextLink]_vars

----------------------------------------------------------------------------
(* SpecEscape: the operations on paths inside and outside the root *)

\* The path arguments that leave the root: a path that climbs out of it and
\* a path through the link that leaves it.
OutsideNames == { <<DOT, DOT, SEP, "o", SEP, "f">>, <<"l", SEP, "f">> }

\* A file of the root, a new file in a new directory, the archive that the
\* run compresses to and decompresses, and the directory it extracts to.
EscapeSource == <<"a">>
EscapeDest == <<"n", SEP, "b">>
EscapeArchive == <<"z", DOT, "zip">>
EscapeOutput == <<"u">>

NextEscape ==
    \/ \E name \in {EscapeSource} \cup OutsideNames,
          dest \in {EscapeDest} \cup OutsideNames : CopyFile(name, dest)
    \/ \E name \in {EscapeDest} \cup OutsideNames : CreateFile(name, C2Data)
    \/ \E name \in {EscapeArchive} \cup OutsideNames,
          directory \in {EscapeOutput} \cup OutsideNames :
           DecompressFile(name, directory)
    \/ \E name \in {EscapeSource} \cup OutsideNames,
          output \in {EscapeArchive, EscapeDest} \cup OutsideNames,
          format \in {"zip", "rar"} :
           /\ Cardinality(Archives(fs)) < MaxArchives
           /\ CompressFile(name, output, format)
    \/ \E name \in {EscapeSource} \cup OutsideNames, now \in SameSecond :
           SaveFileVersion(name, now)
    \/ \E name \in {EscapeDest} \cup OutsideNames : DeleteFile(name)

SpecEscape == Init /\ [][NextEscape]_vars

----------------------------------------------------------------------------
(* SpecDisplay: _get_relative_path under every setting of the valves *)

\* The display roots configured: none, a directory elsewhere, the root's own
\* name, and the place of the real root in the layout where it is moved.
DisplayRoots == { <<>>, <<SEP, "v">>, RootDir, MovedDir }

ValveSettings ==
    [return_relative_paths : BOOLEAN, spoof_directory_root : DisplayRoots,
     debug : {FALSE}]

\* The absolute paths converted that no resolution has produced: the root,
\* paths beneath it, beneath the moved root, beside and outside the root.
AbsolutePaths ==
    { RootDir, P(<<"a">>), P(<<"d", SEP, "a">>), MovedDir, MovedDir \o <<SEP, "a">>,
      SiblingDir \o <<SEP, "f">>, OutsideDir \o <<SEP, "f">>, <<SEP>> }

InitDisplay ==
    /\ fs \in {PlainLayout, LinkLayout, MovedLayout}
    /\ valves \in ValveSettings
    /\ cand = <<>>
    /\ res = Pending
    /\ versions = <<>>
    /\ saved = <<>>
    /\ call = NoCall
    /\ ret = NoResult
    /\ tasks = NoTasks

\* A public operation displays the path that the resolver returned to it.
DisplayResolved ==
    \E c \in Candidates :
        LET r == ResolveUnderRestriction(fs, Joined(c))
        IN  /\ r.ok
            /\ call' = Call("_resolve_under_restriction", c, 0)
            /\ cand' = r.path
            /\ res' = Resolved(GetRelativePath(fs, r.path))
            /\ UNCHANGED <<fs, versions, saved, ret, tasks, valves>>

\* _get_relative_path on a path of any origin.
DisplayPath ==
    \E abs \in AbsolutePaths :
        /\ call' = Call("_get_relative_path", abs, 0)
        /\ cand' = abs
        /\ res' = Resolved(GetRelativePath(fs, abs))
        /\ UNCHANGED <<fs, versions, saved, ret, tasks, valves>>

NextDisplay == DisplayResolved \/ DisplayPath

SpecDisplay == InitDisplay /\ [][NextDisplay]_vars

----------------------------------------------------------------------------
(* SpecEnvelope: what every operation returns *)

\* The path arguments of is_file and is_directory: a file, a directory, a
\* missing name and a path outside the root.
QueryPaths == { <<"a">>, <<"d">>, <<"b">>, <<DOT, DOT, SEP, "o">> }

NextEnvelope ==
    \/ NextEscape
    \/ \E path \in QueryPaths : ToolsIsFile(path)
    \/ \E path \in QueryPaths : ToolsIsDirectory(path)

SpecEnvelope == Init /\ [][NextEnvelope]_vars

----------------------------------------------------------------------------
(* SpecTree: backup_files and batch_rename_files over a directory with links *)

InitTree ==
    /\ fs = TreeLayout
    /\ cand = <<>>
    /\ res = Pending
    /\ versions = <<>>
    /\ saved = <<>>
    /\ call = NoCall
    /\ ret = NoResult
    /\ tasks = NoTasks
    /\ valves = DefaultValves

\* The directory backed up and renamed in, a missing one and one outside.
TreeSources == { <<"d">>, <<"b">>, <<DOT, DOT, SEP, "o">> }

\* The backup directories: two new ones and a path through a file.
TreeBackups == { <<"u">>, <<"n", SEP, "u">>, <<"a", SEP, "u">> }

\* The patterns renamed: the name of the link to a file, of the link to a
\* directory and of the file; and what they are renamed to.
TreeOldPatterns == { <<"t">>, <<"j">>, <<"a">> }
TreeNewPatterns == { <<"w">>, <<"e">> }

NextTree ==
    \/ \E source \in TreeSources, backup \in TreeBackups : BackupFiles(source, backup)
    \/ \E directory \in TreeSources, old \in TreeOldPatterns, new \in TreeNewPatterns :
           BatchRenameFiles(directory, old, new)

SpecTree == InitTree /\ [][NextTree]_vars

----------------------------------------------------------------------------
(* Claims *)

\* C1: whatever the candidate and the layout, _resolve_under_restriction
\* raises the escape error or returns a canonical path that is the canonical
\* root or lies beneath it (the root's string followed by nothing or by a
\* separator).
C1_ResolvedLiesUnderRoot ==
    res.ok => IsUnder(res.path, Base(fs))

\* The entries whose node a step creates, changes or removes.
Changed(f, g) ==
    { p \in (DOMAIN f) \cup (DOMAIN g) :
        ~(Has(f, p) /\ Has(g, p) /\ f[p] = g[p]) }

\* C2: every path that a public operation creates, writes, renames from or
\* to, or deletes lies inside the configured root, the rename destinations
\* that batch_rename_files builds from new_pattern included.
C2_MutationsStayInsideRoot ==
    [][\A p \in Changed(fs, fs') : IsUnder(p, Base(fs))]_vars

\* The key of a file_name: its resolved path.
KeyOf(name) == ResolveUnderRestriction(fs, Joined(name)).path

\* C8: successive successful saves of a path return 1, 2, ..., n: a save
\* returns the length its key's sequence then has, the snapshots of a key
\* are distinct files, and the snapshot of version k holds the content the
\* file had at the k-th save, whatever was written or saved later.
C8_SnapshotsHoldContentAtSave ==
    /\ \A key \in DOMAIN versions :
          /\ Len(saved[key]) = Len(versions[key])
          /\ \A k \in 1..Len(versions[key]) :
                /\ Has(fs, versions[key][k]) =>
                       fs[versions[key][k]] = FileNode(saved[key][k])
                /\ \A j \in 1..Len(versions[key]) :
                       j # k => versions[key][j] # versions[key][k]
    /\ (call.op = "save_file_version" /\ ret.ok) =>
          ret.version = Len(VersionsOf(versions, KeyOf(call.file_name)))

\* Two saves of one file with a write between them: both snapshots exist
\* and differ.
C8_Witness ==
    /\ call.op = "save_file_version" /\ ret.ok /\ ret.version = 2
    /\ \E key \in DOMAIN versions :
          /\ Len(versions[key]) = 2
          /\ Has(fs, versions[key][1]) /\ Has(fs, versions[key][2])
          /\ fs[versions[key][1]].content # fs[versions[key][2]].content

\* C9: a step only ever appends to a key's sequence, and a successful
\* restore_file_version(n) copies the snapshot at sequence position n-1
\* (the n-th entry) onto the original.
C9_AppendOnlyAndRestoreReadsNth ==
    [][/\ \A key \in DOMAIN versions :
             key \in DOMAIN versions' /\ IsPrefixSeq(versions[key], versions'[key])
       /\ (call'.op = "restore_file_version" /\ ret'.ok) =>
             LET key == KeyOf(call'.file_name)
                 n == call'.version
             IN  /\ n \in 1..Len(VersionsOf(versions, key))
                 /\ ret'.version = n
                 /\ ret'.version_path = GetRelativePath(fs, versions[key][n])
                 /\ Has(fs', key)
                 /\ fs'[key] = FileNode(fs[versions[key][n]].content)]_vars

\* Version 1 of a key with two versions restored over a differing content.
C9_Witness ==
    /\ call.op = "restore_file_version" /\ ret.ok /\ call.version = 1
    /\ LET key == KeyOf(call.file_name)
       IN  /\ Len(VersionsOf(versions, key)) = 2
           /\ Has(fs, versions[key][2])
           /\ fs[versions[key][2]].content # fs[key].content

\* C10: restore_file_version of a recorded version whose snapshot file is
\* gone returns ok=false with the 'version file no longer exists' error,
\* which is not the range error, and changes neither a file nor a sequence.
C10_MissingSnapshotIsReported ==
    [][LET key == KeyOf(call'.file_name)
           n == call'.version
       IN  (/\ call'.op = "restore_file_version"
            /\ n \in 1..Len(VersionsOf(versions, key))
            /\ ~Exists(fs, versions[key][n]))
           => /\ ~ret'.ok
              /\ "error" \in ret'.keys
              /\ ret'.error = MissingErrorText
              /\ ret'.error # RangeErrorText
              /\ fs' = fs
              /\ \A k \in DOMAIN versions' : VersionsOf(versions, k) = versions'[k]]_vars

\* A restore answered with the missing-snapshot error while the original exists.
C10_Witness ==
    /\ call.op = "restore_file_version"
    /\ ~ret.ok /\ ret.error = MissingErrorText
    /\ Has(fs, KeyOf(call.file_name))
    /\ Len(VersionsOf(versions, KeyOf(call.file_name))) = 2

\* The output directory of the decompress_file call that a step makes.
OutputOf(c) == ResolveUnderRestriction(fs, Joined(c.directory)).path

\* The entries a decompress_file step may touch on the way to its output
\* directory: the directory itself and the directories above it.
OnTheWay(p, out) == p = out \/ p \in Ancestors(out)

\* C3: whatever the archive and its member names, every file or directory
\* that decompress_file creates or writes lies inside the requested output
\* directory.
C3_ExtractedLiesInsideOutput ==
    [][call'.op = "decompress_file" =>
          \A p \in Changed(fs, fs') :
              IsUnder(p, OutputOf(call')) \/ OnTheWay(p, OutputOf(call'))]_vars

\* The archive that a decompress_file call opens holds an unsafe member.
HoldsUnsafeMember(c) ==
    LET r == ResolveUnderRestriction(fs, Joined(c.file_name))
        d == ResolveUnderRestriction(fs, Joined(c.directory))
    IN  /\ r.ok /\ d.ok /\ IsFile(fs, r.path)
        /\ Opens(c.file_name, fs[r.path].content)
        /\ \E i \in DOMAIN Members(fs[r.path].content) :
              ~SanitizeArchivePath(Members(fs[r.path].content)[i].name, d.path).ok

\* C4: when a member of the archive is unsafe, decompress_file returns
\* ok=false and leaves no member of the archive written, whether stored
\* before or after the unsafe one.
C4_UnsafeMemberLeavesNothingWritten ==
    [][(call'.op = "decompress_file" /\ HoldsUnsafeMember(call')) =>
          /\ ~ret'.ok
          /\ \A p \in Changed(fs, fs') : OnTheWay(p, OutputOf(call'))]_vars

\* C5: when _atomic_write raises after mkstemp has made its temporary file
\* (an Exception raised while the content is written or between the write
\* and the rename), the target holds what it held before the write and the
\* temporary file is gone.
C5_FailureLeavesTargetAndNoTemp ==
    (tasks.w.pc = "raised" /\ tasks.w.created) =>
        /\ NodeAt(fs, tasks.w.path) = tasks.w.prior
        /\ ~Has(fs, tasks.w.temp)

\* A write over an existing file that failed after all its content had
\* been written to the temporary file.
C5_Witness ==
    /\ tasks.w.pc = "raised" /\ tasks.w.created
    /\ tasks.w.prior.kind = "file"
    /\ tasks.w.written = Len(tasks.w.content)

\* C6: a read of the target made while an _atomic_write is in progress
\* sees the whole prior content or the whole new content; the temporary
\* file is in the target's directory; the target changes in one step only,
\* the replace, which gives it the whole new content.
C6_ReadersSeeOldOrNew ==
    [][/\ tasks'.r \in {Unread, tasks'.w.prior, FileNode(tasks'.w.content)}
       /\ tasks'.w.created => DirName(tasks'.w.temp) = DirName(tasks'.w.path)
       /\ NodeAt(fs', tasks'.w.path) # NodeAt(fs, tasks'.w.path) =>
             /\ tasks.w.pc = "replace" /\ tasks'.w.pc = "done"
             /\ NodeAt(fs', tasks'.w.path) = FileNode(tasks'.w.content)]_vars

\* A read that saw the prior content while the temporary file held half
\* of the new content.
C6_Witness ==
    /\ tasks.w.pc = "write"
    /\ tasks.w.written = 1 /\ Len(tasks.w.content) = 2
    /\ tasks.w.prior.kind = "file"
    /\ tasks.r = tasks.w.prior
    /\ fs[tasks.w.temp].content # tasks.w.content

\* C7: two save_file_version calls on one resolved path that both return
\* ok=true return distinct version numbers, and the path's sequence ends
\* with two distinct snapshot paths, however their steps interleave.
C7_ConcurrentSavesTakeDistinctIndexes ==
    \A t, u \in DOMAIN tasks :
        (/\ t # u
         /\ tasks[t].pc = "returned" /\ tasks[t].ok
         /\ tasks[u].pc = "returned" /\ tasks[u].ok
         /\ tasks[t].key = tasks[u].key)
        => /\ tasks[t].index # tasks[u].index
           /\ LET s == versions[tasks[t].key]
              IN  Len(s) >= 2 /\ s[Len(s)] # s[Len(s) - 1]

\* The versions recorded for a key, none for a key never saved.
CountOf(v, key) == IF key \in DOMAIN v THEN Len(v[key]) ELSE 0

\* C11: restore_file_version with a version below 1 or above the number of
\* versions recorded for the resolved path, a path never versioned
\* included, returns ok=false with the range error, the requested number
\* and the available count, and changes no file.
C11_OutOfRangeIsReported ==
    [][LET r == ResolveUnderRestriction(fs, Joined(call'.file_name))
           n == call'.version
       IN  (/\ call'.op = "restore_file_version"
            /\ r.ok
            /\ (n < 1 \/ n > CountOf(versions, r.path)))
           => /\ ~ret'.ok
              /\ ret'.error = RangeErrorText
              /\ {"available", "requested"} \subseteq ret'.keys
              /\ ret'.requested = n
              /\ ret'.available = CountOf(versions, r.path)
              /\ fs' = fs]_vars

\* Version 1 asked of a path never versioned, and a version above the two
\* recorded.
C11_Witness ==
    /\ call.op = "restore_file_version" /\ ~ret.ok
    /\ ret.error = RangeErrorText
    /\ \/ ret.requested = 1 /\ ret.available = 0
       \/ ret.requested = 3 /\ ret.available = 2

\* C12: restore_file_version, whether it returns ok=true or ok=false,
\* leaves the version sequence of every key and every snapshot file as they
\* were; after a restore of version k the versions above k are at their
\* numbers and their snapshots are still there.
C12_RestoreKeepsHistory ==
    [][call'.op = "restore_file_version" =>
          /\ \A key \in (DOMAIN versions) \cup (DOMAIN versions') :
                CountOf(versions', key) = CountOf(versions, key)
                /\ \A j \in 1..CountOf(versions, key) :
                      versions'[key][j] = versions[key][j]
          /\ \A s \in AllSnapshots(versions) : NodeAt(fs', s) = NodeAt(fs, s)
          /\ ret'.ok =>
                LET key == KeyOf(call'.file_name)
                IN  \A j \in (call'.version + 1)..CountOf(versions, key) :
                        /\ versions'[key][j] = versions[key][j]
                        /\ Exists(fs, versions[key][j]) => Exists(fs', versions'[key][j])]_vars

\* Version 1 of a key with two versions was restored and both snapshots
\* are in place.
C12_Witness ==
    /\ call.op = "restore_file_version" /\ ret.ok /\ ret.version = 1
    /\ LET key == KeyOf(call.file_name)
       IN  /\ CountOf(versions, key) = 2
           /\ Exists(fs, versions[key][1]) /\ Exists(fs, versions[key][2])

\* C13: a successful restore_file_version(k) leaves the original path a
\* file holding the content it had when save_file_version returned k,
\* whatever was written to the original or whether it was deleted since,
\* and the original's directory exists.
C13_RestoreBringsBackSavedContent ==
    [][(call'.op = "restore_file_version" /\ ret'.ok) =>
          LET key == KeyOf(call'.file_name)
              k == call'.version
          IN  /\ k \in 1..Len(saved[key])
              /\ Has(fs', key)
              /\ fs'[key] = FileNode(saved[key][k])
              /\ IsDir(fs', DirName(key))]_vars

\* Version 1 restored where the second save had copied another content.
C13_Witness ==
    /\ call.op = "restore_file_version" /\ ret.ok /\ call.version = 1
    /\ LET key == KeyOf(call.file_name)
       IN  /\ Len(saved[key]) = 2
           /\ saved[key][1] # saved[key][2]
           /\ fs[key] = FileNode(saved[key][1])

\* The suffixes under which decompress_file opens an archive of the format.
Fits(format, name) ==
    \/ format = "zip" /\ EndsWith(name, ZipSuffix)
    \/ format = "tar" /\ EndsWith(name, TarSuffix)
    \/ /\ format = "gztar"
       /\ EndsWith(name, TarSuffix) \/ EndsWith(name, TarGzSuffix) \/ EndsWith(name, TgzSuffix)

\* A compress_file step that succeeds leaves at its output an archive of the
\* format that holds one file, named with the base name of the source and
\* with the bytes of the source.
CompressStores ==
    LET fr == ResolveUnderRestriction(fs, Joined(call'.file_name))
        or == ResolveUnderRestriction(fs, Joined(call'.directory))
    IN  (call'.op = "compress_file" /\ ret'.ok) =>
            /\ call'.format \in {"zip", "tar", "gztar"}
            /\ IsFile(fs', or.path)
            /\ fs'[or.path].content[1] = call'.format
            /\ Members(fs'[or.path].content) =
                   << Member(BaseName(fr.path), "file", fs[fr.path].content) >>

\* A decompress_file step opens what compress_file wrote and its output
\* directory does not exist yet.
OpensWritten(c) ==
    LET fr == ResolveUnderRestriction(fs, Joined(c.file_name))
        dr == ResolveUnderRestriction(fs, Joined(c.directory))
    IN  /\ c.op = "decompress_file"
        /\ fr.ok /\ dr.ok
        /\ IsFile(fs, fr.path)
        /\ fs[fr.path].content[2] = "packed"
        /\ ~Exists(fs, dr.path)

\* The step succeeds and the one file it makes has the base name and the
\* bytes of a file compressed.
YieldsTheSource(c, r) ==
    LET dr == ResolveUnderRestriction(fs, Joined(c.directory))
    IN  /\ r.ok
        /\ \E name \in SourceNames :
              LET sr == ResolveUnderRestriction(fs, Joined(name))
                  p == dr.path \o <<SEP>> \o BaseName(sr.path)
              IN  /\ DOMAIN fs' \ DOMAIN fs = {dr.path, p}
                  /\ \A q \in DOMAIN fs : fs'[q] = fs[q]
                  /\ fs'[p] = FileNode(fs[sr.path].content)
                  /\ r.count = 1

NamesLink(c) == IsLinkAt(fs, P(c.file_name))

\* C15: whenever the caller-supplied path names a symbolic link, even one
\* whose target is a regular file inside the root, compress_file refuses
\* with "Cannot compress symlinks" and save_file_version refuses with
\* "Cannot version symlinks"; no archive and no snapshot is produced and the
\* version table is unchanged.
C15_LinksAreRefused ==
    [][ /\ (call'.op = "compress_file" /\ NamesLink(call')) =>
               /\ ~ret'.ok
               /\ ret'.error = <<"Cannot compress symlinks">>
               /\ fs' = fs /\ versions' = versions
        /\ (call'.op = "save_file_version" /\ NamesLink(call')) =>
               /\ ~ret'.ok
               /\ ret'.error = <<"Cannot version symlinks">>
               /\ fs' = fs /\ versions' = versions ]_vars

\* No call on a link to a regular file of the root is refused: none produces
\* the symlink error.
C15_LinkToFileIsFollowed ==
    [][ (call'.op \in {"compress_file", "save_file_version"}
            /\ call'.file_name = <<"s">>)
        => /\ ret'.error \notin {<<"Cannot compress symlinks">>, <<"Cannot version symlinks">>}
           /\ (call'.op = "save_file_version" => ret'.ok /\ versions' # versions) ]_vars

\* The canonical form of a caller's path lies outside the root's prefix.
Leaves(path) == ~StartsWith(ResolveJoined(fs, Joined(path)), Base(fs))

\* The operations that take a second path: a destination, an output file or
\* an output directory.
TwoPathOps == {"copy_file", "compress_file", "decompress_file"}

\* One of the caller's paths of the call is refused with the escape error.
Escapes(c) ==
    \/ Leaves(c.file_name)
    \/ c.op \in TwoPathOps /\ Leaves(c.directory)

EscapeText == <<"Path escapes restriction root: ">>

RootPlaces == {PlainLayout, MovedLayout}

\* C17 (amended): when resolution fails, the error text is the fixed prefix
\* followed by the candidate as the caller's operation passed it; it depends
\* only on the candidate, so that two runs that differ only in where the
\* real root is located and both fail return identical error strings.
C17_ErrorNamesOnlyTheCandidate ==
    (res # Pending /\ ~res.ok) =>
        /\ res.error = EscapeText \o cand
        /\ \A g \in RootPlaces :
              ~ResolveUnderRestriction(g, cand).ok
                  => ResolveUnderRestriction(g, cand).error = res.error

\* A candidate is refused under the moved root, where it resolves to another
\* path than under the plain root, which refuses it too.
C17_Witness ==
    /\ fs = MovedLayout
    /\ res # Pending /\ ~res.ok
    /\ ~ResolveUnderRestriction(PlainLayout, cand).ok
    /\ ResolveJoined(fs, cand) # ResolveJoined(PlainLayout, cand)

\* C17 as stated: the error text is the same wherever the real root lies,
\* and it never contains the resolved absolute path.
C17_ErrorNeverHoldsResolvedPath ==
    (res # Pending /\ ~res.ok) =>
        /\ \A g \in RootPlaces :
              ~ResolveUnderRestriction(g, cand).ok
                  => ResolveUnderRestriction(g, cand).error = res.error
        /\ ~Contains(res.error, ResolveJoined(fs, cand))

\* A display root is configured and is another place than the real root.
DistinctDisplayRoot ==
    /\ valves.spoof_directory_root # <<>>
    /\ RealPath(fs, valves.spoof_directory_root) # Base(fs)

\* C18: with return_relative_paths on, debug off and a display root
\* different from the real root, for every path that
\* _resolve_under_restriction accepts, _get_relative_path returns a string
\* that begins with the display root and does not contain the real root's
\* string.
C18_DisplayHidesRealRoot ==
    (/\ call.op = "_resolve_under_restriction"
     /\ valves.return_relative_paths /\ ~valves.debug
     /\ DistinctDisplayRoot)
        => /\ StartsWith(res.path, valves.spoof_directory_root)
           /\ ~Contains(res.path, Base(fs))

\* The part of the path abs below the directory base, "." for base itself.
RelativeTo(abs, base) ==
    IF abs = base THEN <<DOT>> ELSE SubSeq(abs, Len(base) + 2, Len(abs))

\* C19: _get_relative_path returns its input unchanged when relative-path
\* mode is off or when the input is not under the real root; otherwise it
\* returns the path relative to the real root, prefixed with the display
\* root exactly when a display root distinct from the real root is
\* configured.
C19_DisplayedPathByCase ==
    res # Pending =>
        /\ res.ok
        /\ res.path =
             IF ~valves.return_relative_paths \/ ~IsUnder(cand, Base(fs)) THEN cand
             ELSE IF ~DistinctDisplayRoot THEN RelativeTo(cand, Base(fs))
             ELSE IF cand = Base(fs) THEN valves.spoof_directory_root
             ELSE valves.spoof_directory_root \o <<SEP>> \o RelativeTo(cand, Base(fs))

\* Under the moved root and a display root elsewhere, the file of the root
\* is shown beneath the display root.
C19_Witness ==
    /\ fs = MovedLayout
    /\ valves.return_relative_paths
    /\ valves.spoof_directory_root = <<SEP, "v">>
    /\ cand = MovedDir \o <<SEP, "a">>
    /\ res = Resolved(<<SEP, "v", SEP, "a">>)

\* C20: every public operation returns one result envelope carrying ok,
\* action and subject_type for every outcome, escape and I/O failures
\* included, and whenever ok is false the envelope carries an error string.
C20_EveryOutcomeIsAnEnvelope ==
    call.op # "none" =>
        /\ {"ok", "action", "subject_type"} \subseteq ret.keys
        /\ ~ret.ok => ("error" \in ret.keys /\ ret.error # NoText)

\* Every operation but is_file and is_directory returns such an envelope.
C20_OtherOperationsReturnEnvelopes ==
    call.op \notin {"is_file", "is_directory"} => C20_EveryOutcomeIsAnEnvelope

\* The operations on one file that the run makes.
SingleFileOps == {"create_file", "write_to_file", "copy_file", "compress_file"}

\* C21: whenever create_file, write_to_file, copy_file or compress_file
\* returns ok=false, the filesystem is identical to its state before the
\* call: no newly created parent directory, no partially written
\* destination, no leftover temp file.
C21_FailureLeavesNoTrace ==
    [][ (call'.op \in SingleFileOps /\ ~ret'.ok) => fs' = fs ]_vars

\* The symbolic links met below the directory p.
LinkEntries(f, p) == { q \in Below(f, p) : f[q].kind = "link" }

\* Where backup_files puts the entry q of the source.
BackupOf(c, q) ==
    PathJoin(KeyOf(c.directory), SubSeq(q, Len(KeyOf(c.file_name)) + 2, Len(q)))

\* A backup_files step that ran its loop leaves every link of the source
\* out of the backup, neither copied nor followed, and copies every regular
\* file of the source.
BackupPassesLinks(c, r) ==
    (c.op = "backup_files" /\ r.ok) =>
        /\ \A q \in LinkEntries(fs, KeyOf(c.file_name)) :
              /\ ~Has(fs', BackupOf(c, q))
              /\ Below(fs', BackupOf(c, q)) = {}
        /\ \A q \in WalkFiles(fs, KeyOf(c.file_name)) :
              /\ Has(fs', BackupOf(c, q))
              /\ fs'[BackupOf(c, q)] = fs[q]
        /\ r.files = Cardinality(WalkFiles(fs, KeyOf(c.file_name)))

\* The step names every link of the source in its result.
BackupReportsLinks(c, r) ==
    (c.op = "backup_files" /\ r.ok) =>
        \A q \in LinkEntries(fs, KeyOf(c.file_name)) :
            \E i \in DOMAIN r.failed : r.failed[i].file = GetRelativePath(fs, q)

\* The directory of the batch_rename_files call and the names in it that
\* hold the old pattern (the call is recorded as directory:old:new).
RenameDir(c) == KeyOf(SubSeq(c.file_name, 1, (CHOOSE i \in DOMAIN c.file_name : c.file_name[i] = ":") - 1))
RenamePattern(c) ==
    LET i == CHOOSE k \in DOMAIN c.file_name : c.file_name[k] = ":"
        rest == SubSeq(c.file_name, i + 1, Len(c.file_name))
        j == CHOOSE k \in DOMAIN rest : rest[k] = ":"
    IN  SubSeq(rest, 1, j - 1)
Matching(c) == { x \in ListDir(fs, RenameDir(c)) : Contains(x, RenamePattern(c)) }

\* A batch_rename_files step that ran its loop leaves every matching link
\* as it is, names it in failed, and has every other matching entry in
\* renamed or in failed.
RenamePassesLinks(c, r) ==
    (c.op = "batch_rename_files" /\ r.ok) =>
        \A x \in Matching(c) :
            LET q == PathJoin(RenameDir(c), x)
            IN  IF fs[q].kind = "link"
                THEN /\ Has(fs', q) /\ fs'[q] = fs[q]
                     /\ \E i \in DOMAIN r.failed :
                           r.failed[i] = [from |-> x, error |-> <<"Cannot rename symlinks">>]
                ELSE \/ \E i \in DOMAIN r.failed : r.failed[i].from = x
                     \/ \E i \in DOMAIN r.renamed : r.renamed[i].from = GetRelativePath(fs, q)

\* C22: in backup_files and batch_rename_files, a symlink entry met during
\* the traversal is neither followed nor copied or renamed, is reported in
\* the operation's result, and does not stop the processing of the
\* remaining entries.
C22_LinksSkippedAndReported ==
    [][ /\ BackupPassesLinks(call', ret')
        /\ BackupReportsLinks(call', ret')
        /\ RenamePassesLinks(call', ret') ]_vars

\* The links are skipped and the other entries processed in both
\* operations; batch_rename_files reports them.
C22_LinksSkipped ==
    [][ BackupPassesLinks(call', ret') /\ RenamePassesLinks(call', ret') ]_vars

\* The decompress_file call opens an archive whose members are all safe, and
\* its output directory can be made.
OpensSafeArchive(c) ==
    LET r == ResolveUnderRestriction(fs, Joined(c.file_name))
        d == ResolveUnderRestriction(fs, Joined(c.directory))
    IN  /\ c.op = "decompress_file"
        /\ r.ok /\ d.ok /\ IsFile(fs, r.path)
        /\ EndsWith(c.file_name, ZipSuffix) \/ EndsWith(c.file_name, TarSuffix)
        /\ Opens(c.file_name, fs[r.path].content)
        /\ ~HoldsUnsafeMember(c)

\* What the step left of the member m at the path it was sanitised to: the
\* bytes of a regular file under its parent directories, a directory for a
\* directory, and of any other kind neither a file of its bytes nor a link.
HandledByKind(m, safe) ==
    IF m.kind = "file"
    THEN /\ IsDir(fs', DirName(safe))
         /\ IsFile(fs', safe)
         /\ fs'[RealPath(fs', safe)].content = m.data
    ELSE IF m.kind = "dir"
    THEN IsDir(fs', safe)
    ELSE /\ ~(IsFile(fs', safe) /\ fs'[RealPath(fs', safe)].content = m.data)
         /\ \A p \in DOMAIN fs' : fs'[p].kind = "link" => Has(fs, p)

EachMemberByKind(c) ==
    LET data == fs[KeyOf(c.file_name)].content
    IN  \A i \in DOMAIN Members(data) :
            HandledByKind(Members(data)[i],
                          SanitizeArchivePath(Members(data)[i].name, OutputOf(c)).path)

\* C23: for both zip and tar archives, decompress_file handles each safe
\* member by its kind: a regular-file member is written with its bytes
\* after its parent directories are created, a directory member results in
\* a directory at the sanitized path, and a member of any other kind
\* produces nothing on disk.
C23_MembersHandledByKind ==
    [][ OpensSafeArchive(call') => EachMemberByKind(call') ]_vars

\* The same for the archives read by the tar branch.
C23_TarMembersHandledByKind ==
    [][ (OpensSafeArchive(call') /\ EndsWith(call'.file_name, TarSuffix))
            => EachMemberByKind(call') ]_vars

\* The decompress_file call reaches the choice of the format: its paths are
\* accepted, the archive is a regular file and the output directory can be
\* made.
ReachesFormatChoice(c) ==
    LET r == ResolveUnderRestriction(fs, Joined(c.file_name))
        d == ResolveUnderRestriction(fs, Joined(c.directory))
    IN  /\ c.op = "decompress_file"
        /\ r.ok /\ d.ok /\ IsFile(fs, r.path)
        /\ MakeDirs(fs, d.path).ok

\* The format that the suffix of the name stands for, "none" for any other
\* suffix.
FormatOfSuffix(name) ==
    IF EndsWith(name, ZipSuffix) THEN "zip"
    ELSE IF EndsWith(name, TarGzSuffix) \/ EndsWith(name, TgzSuffix) THEN "gztar"
    ELSE IF EndsWith(name, TarSuffix) THEN "tar"
    ELSE "none"

\* What the file holds is read by the reader of the format: the format
\* itself, and a gzipped tar also by the reader of tar.
ReadAs(stored, format) ==
    stored = format \/ (stored = "gztar" /\ format = "tar")

\* C24: decompress_file chooses the container format only from the suffix of
\* the archive's name (.zip, .tar, .tar.gz or .tgz): for any other suffix it
\* returns ok=false with "Unsupported archive format" and extracts no
\* member, whatever the file holds; under a known suffix a file that the
\* suffix's reader does not read is an archive error, not read by another
\* reader, and a file it reads is extracted.
C24_FormatChosenBySuffix ==
    [][ ReachesFormatChoice(call') =>
          LET stored == fs[KeyOf(call'.file_name)].content[1]
              format == FormatOfSuffix(call'.file_name)
              made == { p \in Changed(fs, fs') : ~OnTheWay(p, OutputOf(call')) }
          IN  IF format = "none"
              THEN /\ ~ret'.ok
                   /\ ret'.error = <<"Unsupported archive format">>
                   /\ made = {}
              ELSE IF ~ReadAs(stored, format)
              THEN /\ ~ret'.ok
                   /\ StartsWith(ret'.error, <<"Archive error: ">>)
                   /\ made = {}
              ELSE ret'.ok /\ ret'.count >= 1 ]_vars

\* A zip archive stored under a name with another suffix has been refused as
\* of an unsupported format.
C24_Witness ==
    /\ call.op = "decompress_file"
    /\ call.file_name = <<"z", DOT, "dat">>
    /\ IsFile(fs, KeyOf(call.file_name))
    /\ fs[KeyOf(call.file_name)].content[1] = "zip"
    /\ ~ret.ok
    /\ ret.error = <<"Unsupported archive format">>
    /\ ~Exists(fs, P(<<"u", SEP, "a">>))

\* The contents that a finished write or copy leaves in the shared file:
\* what it held at first, the source of the copy and the content written.
WholeContents == { C1Data, C2Data, SharedContent }

\* The node is a file holding the whole of one content.
Whole(node) == node.kind = "file" /\ node.content \in WholeContents

\* C25: every operation that replaces the content of a file goes through the
\* temporary file and the rename, so that a concurrent reader of the
\* destination never observes partially written content.
C25_ReaderSeesWholeContent ==
    tasks.r.kind = "file" => tasks.r.content \in WholeContents

\* The steps of write_to_file and create_file keep their part of C25: no
\* step of the writer leaves the shared file with less or other than a whole
\* content.
C25_WriterKeepsContentWhole ==
    [][ tasks'.w1 # tasks.w1 /\ Whole(NodeAt(fs, SharedFile))
          => Whole(NodeAt(fs', SharedFile)) ]_vars

\* The restore_file_version call passed the range test.
PassedRange(q) == q.key # NoText

\* C26: restore_file_version reads the length of the key's list once; however
\* the concurrent save_file_version calls on the key interleave, the version
\* that passed the range test lies within the list read and within the list
\* as it is now, and the path selected is the one at position version-1 of
\* the list (position version here, sequences starting at 1).
C26_RestoreSelectsWithinRange ==
    LET q == tasks.q
    IN  PassedRange(q) =>
            /\ 1 <= q.version
            /\ q.version <= q.available
            /\ q.available <= Len(VersionsOf(versions, q.key))
            /\ q.vpath = VersionsOf(versions, q.key)[q.version]

\* A restore of version 1 has returned ok=true after a save on the same key
\* appended a second snapshot behind the length it had read.
C26_Witness ==
    /\ tasks.q.pc = "returned" /\ tasks.q.ok
    /\ tasks.q.version = 1 /\ tasks.q.available = 1
    /\ Len(VersionsOf(versions, tasks.q.key)) = 2
    /\ fs[tasks.q.key].content = fs[tasks.q.vpath].content

\* The new_pattern of a batch_rename_files call.
RenameNew(c) ==
    LET i == CHOOSE k \in DOMAIN c.file_name : c.file_name[k] = ":"
        rest == SubSeq(c.file_name, i + 1, Len(c.file_name))
        j == CHOOSE k \in DOMAIN rest : rest[k] = ":"
    IN  SubSeq(rest, j + 1, Len(rest))

\* The records of the two lists that are about the entry x of the directory.
InRenamed(r, x, c) ==
    { i \in DOMAIN r.renamed :
        r.renamed[i].from = GetRelativePath(fs, PathJoin(RenameDir(c), x)) }
InFailed(r, x) == { i \in DOMAIN r.failed : r.failed[i].from = x }

\* The batch_rename_files call comes to its loop: the directory is accepted
\* and is a directory.
RunsRenameLoop(c) ==
    /\ c.op = "batch_rename_files"
    /\ ResolveUnderRestriction(fs, SubSeq(c.file_name, 1,
           (CHOOSE k \in DOMAIN c.file_name : c.file_name[k] = ":") - 1)).ok
    /\ IsDir(fs, RenameDir(c))

\* C27: batch_rename_files returns ok=true with two lists in which every
\* entry of the directory whose name contains old_pattern appears in exactly
\* one of renamed and failed, and which hold nothing else; an entry that
\* failed does not stop the others, and an entry in renamed stays renamed:
\* its old name is gone unless another entry was renamed to it, and its new
\* name is there unless it was itself renamed afterwards.
C27_EveryMatchInOneList ==
    [][ RunsRenameLoop(call') =>
          LET c == call'
              r == ret'
              d == RenameDir(c)
              To(x) == ReplaceAll(x, RenamePattern(c), RenameNew(c))
          IN  /\ r.ok
              /\ Len(r.renamed) + Len(r.failed) = Cardinality(Matching(c))
              /\ \A x \in Matching(c) :
                    /\ Cardinality(InRenamed(r, x, c)) + Cardinality(InFailed(r, x)) = 1
                    /\ (InRenamed(r, x, c) # {} /\ To(x) # x) =>
                          /\ \/ ~Has(fs', PathJoin(d, x))
                             \/ \E y \in Matching(c) : /\ InRenamed(r, y, c) # {}
                                                       /\ y # x /\ To(y) = x
                          /\ \/ Has(fs', PathJoin(d, To(x)))
                             \/ To(x) \in Matching(c)
                    /\ InFailed(r, x) # {} =>
                          \/ Has(fs', PathJoin(d, x))
                          \/ \E y \in Matching(c) : InRenamed(r, y, c) # {} ]_vars

\* A call has renamed one entry and failed on two others, a link and a
\* name taken by a directory; the renamed entry is under its new name.
C27_Witness ==
    /\ call.op = "batch_rename_files" /\ ret.ok
    /\ Len(ret.renamed) = 1 /\ Len(ret.failed) = 2
    /\ \E i \in DOMAIN ret.failed : ret.failed[i].error = <<"Cannot rename symlinks">>
    /\ \E i \in DOMAIN ret.failed : ret.failed[i].error = <<"IsADirectoryError">>
    /\ Has(fs, P(<<"d", SEP, "e">>)) /\ ~Has(fs, P(<<"d", SEP, "a">>))

\* The save_file_version coroutine t fails at this step.
FailsNow(t) == tasks[t].pc # "returned" /\ tasks'[t].pc = "returned" /\ ~tasks'[t].ok

\* C28: a save_file_version that fails, at whatever step, leaves the entries
\* of every key's version list as they were: no step of a save but the
\* append of a successful one changes them, and after a failure the next
\* index of the key is the index that the failed call had computed.
C28_FailedSaveKeepsEntries ==
    [][ /\ (\E key \in (DOMAIN versions) \cup (DOMAIN versions') :
               VersionsOf(versions', key) # VersionsOf(versions, key))
           => tasks.t1.pc = "append" /\ tasks'.t1.ok
        /\ (FailsNow("t1") /\ tasks.t1.index > 0)
           => NextIndex(versions', tasks.t1.key) = tasks.t1.index ]_vars

\* A save of a file that has one version failed in its copy: the key still
\* has its one version and the index 2 that the failed call had computed is
\* the next one.
C28_Witness ==
    /\ tasks.t1.pc = "returned" /\ ~tasks.t1.ok
    /\ tasks.t1.index = 2
    /\ Len(VersionsOf(versions, tasks.t1.key)) = 1
    /\ NextIndex(versions, tasks.t1.key) = 2

\* The writer holds a temporary file of its own making.
HoldsTemp(w) == w.pc \in {"open", "write", "replace", "cleanup"}

\* The two writers ran on one target at the same time and both have
\* returned.
BothCompleted ==
    /\ tasks.w1.pc = "returned" /\ tasks.w2.pc = "returned"
    /\ tasks.w1.path # NoText /\ tasks.w1.path = tasks.w2.path
    /\ tasks.w1.overlapped \/ tasks.w2.overlapped

\* C29: two write_to_file or create_file calls that run concurrently on one
\* target write through temporary files of their own; when both have
\* completed, no temporary file remains in the directory and the target
\* holds the whole content of one of the calls that returned ok=true, never
\* a mixture.
C29_TargetHoldsOneWholeContent ==
    /\ (HoldsTemp(tasks.w1) /\ HoldsTemp(tasks.w2)) => tasks.w1.temp # tasks.w2.temp
    /\ BothCompleted =>
          /\ \A p \in TempNamesIn(DirName(tasks.w1.path)) : ~Has(fs, p)
          /\ (tasks.w1.ok \/ tasks.w2.ok) =>
                \E t \in Writers : /\ tasks[t].ok
                                   /\ NodeAt(fs, tasks[t].path) = FileNode(tasks[t].content)

\* Two writes of different contents to the file a ran at the same time and
\* both returned ok=true; a holds the two pieces of the one.
C29_Witness ==
    /\ BothCompleted
    /\ tasks.w1.ok /\ tasks.w2.ok
    /\ tasks.w1.path = SharedFile
    /\ tasks.w1.content # tasks.w2.content
    /\ fs[SharedFile].content = <<"n1", "n2">>

\* C30: a snapshot that save_file_version recorded while write_to_file wrote
\* the same file holds the whole of what the file held before the write or
\* the whole of what it holds after it, never a mixture: every recorded
\* snapshot of the shared file, and the one of the save that returned last,
\* holds one whole content.
C30_SnapshotHoldsWholeContent ==
    /\ \A i \in DOMAIN VersionsOf(versions, SharedFile) :
          Whole(NodeAt(fs, VersionsOf(versions, SharedFile)[i]))
    /\ tasks.k.op = "save_file_version" /\ tasks.k.pc = "returned" /\ tasks.k.ok
          => Whole(NodeAt(fs, tasks.k.dst))

\* A save returned ok=true whose copy had opened the file before the
\* writer's replace: the snapshot holds what the file held before the write,
\* the file holds what was written.
C30_Witness ==
    /\ tasks.k.op = "save_file_version" /\ tasks.k.pc = "returned" /\ tasks.k.ok
    /\ ~tasks.k.live
    /\ tasks.w1.pc = "returned" /\ tasks.w1.ok
    /\ fs[tasks.k.dst].content = C1Data
    /\ fs[SharedFile].content = SharedContent

====
